---------------------------- MODULE Spec2Model ----------------------------
(***************************************************************************)
(* CHRplunk: the CHR tile codec (src/chrplunk/chr_format.py, class         *)
(* CHRFile).  A CHRFile is a byte buffer `data` and a cached `tile_count`. *)
(* Byte buffers are sequences of integers 0..255; Python's 0-based index k *)
(* is position k+1 of the sequence, and a negative index k counts from the *)
(* end, as Python's bytearray does.                                        *)
(*                                                                         *)
(* The iNES container parser (src/chrplunk/nes_rom.py, class NESRom) is    *)
(* the second component: the constructor reads the file in steps (header,  *)
(* magic, trainer, PRG, CHR) and raises NESRomError at the first step that *)
(* finds too few bytes.                                                    *)
(*                                                                         *)
(* The build system (src/chrplunk/build_system.py, class BuildSystem) runs *)
(* each build in a thread of its own; the thread hands its result to the   *)
(* GLib main loop, which resets is_building and emits build-finished.      *)
(***************************************************************************)
EXTENDS Integers, Sequences, FiniteSets, TLC

VARIABLES
    data,        \* CHRFile.data (bytearray)
    tile_count,  \* CHRFile.tile_count
    op,          \* the last call: "init", "set_tile", "get_tile", "render_tile"
    idx,         \* its tile_index argument
    tin,         \* its tile_data argument (set_tile)
    ret,         \* the tile it returned (get_tile)
    err,         \* the exception it raised: "none" or "IndexError"
    old_data,    \* data before the call
    old_count,   \* tile_count before the call
    writes,      \* number of set_tile calls so far
    scale,       \* the scale argument (render_tile_to_pixbuf)
    palette,     \* the palette argument (render_tile_to_pixbuf)
    pixbuf,      \* the pixel buffer the render call handed to GdkPixbuf
    per_row,     \* the tiles_per_row argument (render_all_tiles_to_pixbuf)
    rom_file,    \* the bytes of the file NESRom opens
    rom,         \* the NESRom under construction: its fields, the position
                 \* of _parse in its steps and of the file object in the file
    rom_call,    \* the last method called on the NESRom: its name, its
                 \* bank_index argument, what it returned and what it raised
    pixel,       \* the pixel and the color of the last paint step
    build        \* the BuildSystem: is_building, its build threads, the idle
                 \* callbacks queued in the main loop, the signals emitted

vars == <<data, tile_count, op, idx, tin, ret, err, old_data, old_count,
          writes, scale, palette, pixbuf, per_row, rom_file, rom, rom_call,
          pixel, build>>

---------------------------------------------------------------------------
(* Bounds of the model *)

\* tile indices passed to the calls range over -1..MaxIndex
MaxIndex == 2
\* initial buffers hold up to MaxInitTiles whole tiles (plus a partial one)
MaxInitTiles == 2
\* number of set_tile calls in one behaviour
MaxWrites == 1
\* number of set_tile calls in a sequence of calls on one sheet
MaxSeqWrites == 2
\* render scales range over 1..MaxScale
MaxScale == 2
\* tiles_per_row ranges over 0..MaxPerRow
MaxPerRow == 2
\* ROM headers declare 0..MaxPrgBanks PRG banks
MaxPrgBanks == 1
\* ROM headers declare 0..MaxChrBanks CHR banks
MaxChrBanks == 2
\* number of builds started in one behaviour
MaxBuilds == 2

---------------------------------------------------------------------------
(* Python integer and sequence primitives used by the codec *)

\* n >> b on Python integers (floor division, also for negative n)
ShiftRight(n, b) == n \div (2 ^ b)

\* n << b
ShiftLeft(n, b) == n * (2 ^ b)

\* n & 1 on Python integers (two's complement: 1 for every odd n)
And1(n) == n % 2

\* a | b on non-negative integers
RECURSIVE BitOr(_, _)
BitOr(a, b) ==
    IF a = 0 THEN b
    ELSE IF b = 0 THEN a
    ELSE (IF (a % 2 = 1) \/ (b % 2 = 1) THEN 1 ELSE 0)
         + 2 * BitOr(a \div 2, b \div 2)

\* whether d[k] is a valid index of a bytearray (negative k counts from the end)
PyIndexOK(d, k) == (-Len(d) <= k) /\ (k < Len(d))

\* the 1-based position Python's d[k] addresses
PyPos(d, k) == IF k < 0 THEN Len(d) + k + 1 ELSE k + 1

\* d[k]
PyAt(d, k) == d[PyPos(d, k)]

\* d[k] = v
PyStore(d, k, v) == [d EXCEPT ![PyPos(d, k)] = v]

\* [0] * n (empty for n <= 0)
Zeros(n) == [k \in 1..(IF n > 0 THEN n ELSE 0) |-> 0]

\* [[0] * 8 for _ in range(8)]
ZeroTile == [y \in 1..8 |-> [x \in 1..8 |-> 0]]

\* the default palette
NES_PALETTE == << <<84, 84, 84>>, <<0, 30, 116>>, <<8, 16, 144>>, <<48, 0, 136>> >>

---------------------------------------------------------------------------
(* CHRFile.__init__ *)

\* mutant: a partial trailing tile counted as a tile
TileCountOf_Ceil(d) == (Len(d) + 15) \div 16

\* tile_count = len(data) // 16
TileCountOf(d) == Len(d) \div 16

---------------------------------------------------------------------------
(* CHRFile.get_tile *)

\* low_bit = (low_byte >> bit) & 1, high_bit likewise
PlaneBit(byte, bit) == And1(ShiftRight(byte, bit))

\* color_index = (high_bit << 1) | low_bit
ColorIndex(low_byte, high_byte, bit) ==
    BitOr(ShiftLeft(PlaneBit(high_byte, bit), 1), PlaneBit(low_byte, bit))

\* the byte of the low plane of row y (0-based) of the tile at offset
LowByteAt(d, offset, y) == PyAt(d, offset + y)

\* the byte of the high plane of row y (0-based)
HighByteAt(d, offset, y) == PyAt(d, offset + y + 8)

\* mutant: bit 0 taken as the leftmost pixel
BitOfColumn_Reversed(x) == x

\* bit = 7 - x
BitOfColumn(x) == 7 - x

\* offset = tile_index * 16 (get_tile)
GetOffset(tile_index) == tile_index * 16

\* get_tile raises IndexError: the index passes the range guard (it is below
\* tile_count) but the first byte it reads is outside the buffer
get_tile_raises(d, tc, tile_index) ==
    /\ ~(tile_index >= tc)
    /\ \E y \in 0..7 : ~PyIndexOK(d, GetOffset(tile_index) + y)
                       \/ ~PyIndexOK(d, GetOffset(tile_index) + y + 8)

\* the tile get_tile returns (when it does not raise)
get_tile(d, tc, tile_index) ==
    IF tile_index >= tc THEN ZeroTile
    ELSE LET offset == GetOffset(tile_index) IN
         [y1 \in 1..8 |-> [x1 \in 1..8 |->
             ColorIndex(LowByteAt(d, offset, y1 - 1),
                        HighByteAt(d, offset, y1 - 1),
                        BitOfColumn(x1 - 1))]]

---------------------------------------------------------------------------
(* CHRFile.set_tile *)

\* the number of bytes the growth step appends
GrowBy(d, tile_index) == (tile_index + 1) * 16 - Len(d)

\* mutant: growth allocates a fresh zero buffer instead of appending
Extended_Fresh(d, tc, tile_index) ==
    IF tile_index >= tc THEN Zeros((tile_index + 1) * 16) ELSE d

\* the buffer after the growth step
Extended(d, tc, tile_index) ==
    IF tile_index >= tc THEN d \o Zeros(GrowBy(d, tile_index)) ELSE d

\* mutant: the low plane filled from bit 1 of the color
LowBit_FromHigh(color_index) == And1(ShiftRight(color_index, 1))

\* low_bit = color_index & 1
LowBit(color_index) == And1(color_index)

\* mutant: the shift forgotten
HighBit_NoShift(color_index) == And1(color_index)

\* mutant: a comparison instead of a mask
HighBit_Compare(color_index) == IF color_index >= 2 THEN 1 ELSE 0

\* high_bit = (color_index >> 1) & 1
HighBit(color_index) == And1(ShiftRight(color_index, 1))

\* the inner loop over x for the low plane: low_byte |= (low_bit << bit)
RECURSIVE LowByteLoop(_, _, _)
LowByteLoop(row, x, low_byte) ==
    IF x > 7 THEN low_byte
    ELSE LowByteLoop(row, x + 1,
            BitOr(low_byte, ShiftLeft(LowBit(row[x + 1]), BitOfColumn(x))))

\* the inner loop over x for the high plane: high_byte |= (high_bit << bit)
RECURSIVE HighByteLoop(_, _, _)
HighByteLoop(row, x, high_byte) ==
    IF x > 7 THEN high_byte
    ELSE HighByteLoop(row, x + 1,
            BitOr(high_byte, ShiftLeft(HighBit(row[x + 1]), BitOfColumn(x))))

\* one pass of the outer loop: the two stores of row y
StoreRow(d, offset, y, tile_data) ==
    PyStore(PyStore(d, offset + y, LowByteLoop(tile_data[y + 1], 0, 0)),
            offset + y + 8, HighByteLoop(tile_data[y + 1], 0, 0))

\* the outer loop over y, from row y on
RECURSIVE StoreRows(_, _, _, _)
StoreRows(d, offset, y, tile_data) ==
    IF y > 7 THEN d
    ELSE StoreRows(StoreRow(d, offset, y, tile_data), offset, y + 1, tile_data)

\* mutant: a tile taken to be 8 bytes
SetOffset_Half(tile_index) == tile_index * 8

\* offset = tile_index * 16 (set_tile)
SetOffset(tile_index) == tile_index * 16

\* set_tile raises IndexError: a negative index reaching before the buffer's
\* start fails at the first store (row 0), before any byte is written
set_tile_raises(d, tc, tile_index) ==
    LET d1 == Extended(d, tc, tile_index) IN
    \E y \in 0..7 : ~PyIndexOK(d1, SetOffset(tile_index) + y)
                    \/ ~PyIndexOK(d1, SetOffset(tile_index) + y + 8)

\* data after set_tile
set_tile(d, tc, tile_index, tile_data) ==
    LET d1 == Extended(d, tc, tile_index) IN
    IF set_tile_raises(d, tc, tile_index) THEN d1
    ELSE StoreRows(d1, SetOffset(tile_index), 0, tile_data)

\* mutant: tile_count is not recomputed after the growth
set_tile_count_Stale(d, tc, tile_index) == tc

\* tile_count after set_tile: recomputed only by the growth step
set_tile_count(d, tc, tile_index) ==
    IF tile_index >= tc THEN TileCountOf(Extended(d, tc, tile_index)) ELSE tc

---------------------------------------------------------------------------
(* TileViewer.paint_pixel: the paint step on the selected tile *)

\* mutant: the row and the column of the pixel exchanged
Painted_Transposed(tile, tile_x, tile_y, color) ==
    [tile EXCEPT ![tile_x + 1][tile_y + 1] = color]

\* tile[tile_y][tile_x] = self.selected_color
Painted(tile, tile_x, tile_y, color) ==
    [tile EXCEPT ![tile_y + 1][tile_x + 1] = color]

\* the exception the paint step raises: that of get_tile, or that of set_tile
paint_raises(d, tc, selected_tile) ==
    get_tile_raises(d, tc, selected_tile) \/ set_tile_raises(d, tc, selected_tile)

\* data after get_tile, the change of one pixel and set_tile
paint_pixel(d, tc, selected_tile, tile_x, tile_y, color) ==
    IF get_tile_raises(d, tc, selected_tile) THEN d
    ELSE set_tile(d, tc, selected_tile,
                  Painted(get_tile(d, tc, selected_tile), tile_x, tile_y, color))

---------------------------------------------------------------------------
(* CHRFile.render_tile_to_pixbuf *)

\* mutant: the scaling loop runs once
Repeat_Once(seq, n) == seq

\* seq repeated n times: the body of a `for _ in range(n)` loop that extends
RECURSIVE Repeat(_, _)
Repeat(seq, n) == IF n <= 0 THEN <<>> ELSE seq \o Repeat(seq, n - 1)

\* color = palette[color_idx % len(palette)]
PaletteColor(pal, color_idx) == pal[(color_idx % Len(pal)) + 1]

\* the loop over x (from column x on) of one output line of row y: each
\* pixel's color extended `s` times
RECURSIVE LinePixels(_, _, _, _)
LinePixels(row, x, s, pal) ==
    IF x > 7 THEN <<>>
    ELSE Repeat(PaletteColor(pal, row[x + 1]), s) \o LinePixels(row, x + 1, s, pal)

\* the loop over y (from row y on): each row's line emitted `s` times
RECURSIVE TilePixels(_, _, _, _)
TilePixels(tile, y, s, pal) ==
    IF y > 7 THEN <<>>
    ELSE Repeat(LinePixels(tile[y + 1], 0, s, pal), s) \o TilePixels(tile, y + 1, s, pal)

\* the exception render_tile_to_pixbuf raises, or "none"
render_tile_raises(d, tc, tile_index, pal) ==
    IF get_tile_raises(d, tc, tile_index) THEN "IndexError"
    ELSE IF Len(pal) = 0 THEN "ZeroDivisionError"
    ELSE "none"

\* the bytes, width, height and rowstride handed to GdkPixbuf
render_tile_to_pixbuf(d, tc, tile_index, s, pal) ==
    [pixels |-> TilePixels(get_tile(d, tc, tile_index), 0, s, pal),
     width |-> 8 * s, height |-> 8 * s, rowstride |-> (8 * s) * 3]

---------------------------------------------------------------------------
(* CHRFile.render_all_tiles_to_pixbuf *)

\* mutant: the empty sheet not special-cased
IsEmptySheet_Never(tc) == FALSE

\* if self.tile_count == 0
IsEmptySheet(tc) == tc = 0

\* mutant: the rows rounded down
SheetRows_Floor(tc, tiles_per_row) == tc \div tiles_per_row

\* rows = (self.tile_count + tiles_per_row - 1) // tiles_per_row
SheetRows(tc, tiles_per_row) == (tc + tiles_per_row - 1) \div tiles_per_row

\* tile_size = 8 * scale
TileSize(s) == 8 * s

\* width = tiles_per_row * tile_size
SheetWidth(tiles_per_row, s) == tiles_per_row * TileSize(s)

\* height = rows * tile_size
SheetHeight(tc, tiles_per_row, s) == SheetRows(tc, tiles_per_row) * TileSize(s)

\* tile_row = tile_idx // tiles_per_row
TileRow(tile_idx, tiles_per_row) == tile_idx \div tiles_per_row

\* tile_col = tile_idx % tiles_per_row
TileCol(tile_idx, tiles_per_row) == tile_idx % tiles_per_row

\* offset = (py * width + px) * 3
PixelOffset(px, py, width) == (py * width + px) * 3

\* if offset + 2 < len(pixels): pixels[offset:offset+3] = color
StorePixel(pixels, offset, color) ==
    IF offset + 2 < Len(pixels)
    THEN [pixels EXCEPT ![offset + 1] = color[1],
                        ![offset + 2] = color[2],
                        ![offset + 3] = color[3]]
    ELSE pixels

\* the loop over sx, from sx on: geometry g = [width, tile_size, scale,
\* tile_row, tile_col]
RECURSIVE SheetSxLoop(_, _, _, _, _, _, _)
SheetSxLoop(pixels, g, y, sy, x, sx, color) ==
    IF sx >= g.scale THEN pixels
    ELSE LET px == g.tile_col * g.tile_size + x * g.scale + sx
             py == g.tile_row * g.tile_size + y * g.scale + sy
             stored == StorePixel(pixels, PixelOffset(px, py, g.width), color)
         IN IF Len(stored) = 0 THEN stored
            ELSE SheetSxLoop(stored, g, y, sy, x, sx + 1, color)

\* the loop over x, from column x on
RECURSIVE SheetXLoop(_, _, _, _, _, _, _)
SheetXLoop(pixels, g, tile, pal, y, sy, x) ==
    IF x > 7 THEN pixels
    ELSE LET drawn == SheetSxLoop(pixels, g, y, sy, x, 0,
                                  PaletteColor(pal, tile[y + 1][x + 1]))
         IN IF Len(drawn) = 0 THEN drawn
            ELSE SheetXLoop(drawn, g, tile, pal, y, sy, x + 1)

\* the loop over sy, from sy on
RECURSIVE SheetSyLoop(_, _, _, _, _, _)
SheetSyLoop(pixels, g, tile, pal, y, sy) ==
    IF sy >= g.scale THEN pixels
    ELSE LET drawn == SheetXLoop(pixels, g, tile, pal, y, sy, 0)
         IN IF Len(drawn) = 0 THEN drawn
            ELSE SheetSyLoop(drawn, g, tile, pal, y, sy + 1)

\* the loop over y, from row y on
RECURSIVE SheetYLoop(_, _, _, _, _)
SheetYLoop(pixels, g, tile, pal, y) ==
    IF y > 7 THEN pixels
    ELSE LET drawn == SheetSyLoop(pixels, g, tile, pal, y, 0)
         IN IF Len(drawn) = 0 THEN drawn
            ELSE SheetYLoop(drawn, g, tile, pal, y + 1)

\* the loop over tile_idx, from tile_idx on
RECURSIVE SheetTileLoop(_, _, _, _, _, _, _)
SheetTileLoop(pixels, d, tc, tiles_per_row, s, pal, tile_idx) ==
    IF tile_idx >= tc THEN pixels
    ELSE LET g == [width |-> SheetWidth(tiles_per_row, s),
                   tile_size |-> TileSize(s),
                   scale |-> s,
                   tile_row |-> TileRow(tile_idx, tiles_per_row),
                   tile_col |-> TileCol(tile_idx, tiles_per_row)]
             drawn == SheetYLoop(pixels, g, get_tile(d, tc, tile_idx), pal, 0)
         IN IF Len(drawn) = 0 THEN drawn
            ELSE SheetTileLoop(drawn, d, tc, tiles_per_row, s, pal, tile_idx + 1)

\* the exception render_all_tiles_to_pixbuf raises, or "none": the empty
\* sheet returns before tiles_per_row and the palette are used
render_all_raises(tc, tiles_per_row, pal) ==
    IF IsEmptySheet(tc) THEN "none"
    ELSE IF tiles_per_row = 0 THEN "ZeroDivisionError"
    ELSE IF Len(pal) = 0 THEN "ZeroDivisionError"
    ELSE "none"

\* GdkPixbuf.Pixbuf.new(RGB, False, 8, 64, 64): the program states the size
\* only; GdkPixbuf allocates the pixels and chooses the rowstride
BlankPixbuf == [pixels |-> <<>>, width |-> 64, height |-> 64, rowstride |-> 0]

\* the bytes, width, height and rowstride handed to GdkPixbuf
render_all_tiles_to_pixbuf(d, tc, tiles_per_row, s, pal) ==
    IF IsEmptySheet(tc) THEN BlankPixbuf
    ELSE LET width == SheetWidth(tiles_per_row, s)
             height == SheetHeight(tc, tiles_per_row, s)
         IN [pixels |-> SheetTileLoop(Zeros(width * height * 3), d, tc,
                                      tiles_per_row, s, pal, 0),
             width |-> width, height |-> height, rowstride |-> width * 3]

---------------------------------------------------------------------------
(* The iNES parser: NESRom.__init__ and NESRom._parse *)

\* NESRom.INES_MAGIC = b'NES\x1a'
INES_MAGIC == <<78, 69, 83, 26>>

\* f.read(16): the header length
HEADER_SIZE == 16
\* f.read(512): the trainer length
TRAINER_SIZE == 512
\* bytes per PRG bank
PRG_BANK_SIZE == 16384
\* bytes per CHR bank
CHR_BANK_SIZE == 8192
\* the trainer bit of flags6
TRAINER_FLAG == 4

\* The messages of the NESRomError the parser raises; the two "Incomplete
\* ... ROM data" messages end in "(expected E, got G)", kept in the fields
\* expected and got of the model.
TruncatedHeader == "File too small to be a valid NES ROM"
BadMagic == "Not a valid iNES ROM file (missing NES header)"
TruncatedTrainer == "Incomplete trainer data"
TruncatedPrg == "Incomplete PRG ROM data"
TruncatedChr == "Incomplete CHR ROM data"

\* a & b on non-negative integers
RECURSIVE BitAnd(_, _)
BitAnd(a, b) ==
    IF a = 0 \/ b = 0 THEN 0
    ELSE (a % 2) * (b % 2) + 2 * BitAnd(a \div 2, b \div 2)

\* mutant: a read returns all that is left of the file
ReadBytes_ToEnd(s, pos, n) == SubSeq(s, pos + 1, Len(s))

\* f.read(n) at position pos of a file holding the bytes s: the n bytes
\* from pos, or all that are left when fewer than n are
ReadBytes(s, pos, n) ==
    SubSeq(s, pos + 1, IF pos + n <= Len(s) THEN pos + n ELSE Len(s))

\* seq[a:b] for 0 <= a <= b
PySlice(seq, a, b) == SubSeq(seq, a + 1, IF b <= Len(seq) THEN b ELSE Len(seq))

\* the object as __init__ leaves it before it calls _parse (header is None,
\* written <<>>: nothing reads it before _parse assigns it)
NewRom ==
    [pc |-> "ReadHeader", pos |-> 0, header |-> <<>>,
     prg_rom_size |-> 0, chr_rom_size |-> 0, has_trainer |-> FALSE,
     chr_rom_banks |-> <<>>,
     error |-> "none", expected |-> 0, got |-> 0, returned |-> FALSE]

\* raise NESRomError(message): _parse and __init__ are left, the caller
\* gets the exception and no object
Raise(st, message, expected, got) ==
    [st EXCEPT !.pc = "Failed", !.error = message,
               !.expected = expected, !.got = got]

\* mutant: only a header one byte shorter is rejected
HeaderShort_Off(h) == Len(h) < HEADER_SIZE - 1

\* len(self.header) < 16
HeaderShort(h) == Len(h) < HEADER_SIZE

\* self.header = f.read(16) and the length test
read_header(s, st) ==
    LET h == ReadBytes(s, st.pos, HEADER_SIZE)
        r == [st EXCEPT !.header = h, !.pos = st.pos + Len(h)]
    IN IF HeaderShort(h) THEN Raise(r, TruncatedHeader, 0, 0)
       ELSE [r EXCEPT !.pc = "CheckMagic"]

\* mutant: the magic compared on its first three bytes
MagicOK_Prefix3(h) == PySlice(h, 0, 3) = SubSeq(INES_MAGIC, 1, 3)

\* self.header[0:4] == self.INES_MAGIC
MagicOK(h) == PySlice(h, 0, 4) = INES_MAGIC

\* mutant: PRG banks of 8 KB
PrgRomSize_8K(prg_rom_banks) == prg_rom_banks * CHR_BANK_SIZE

\* prg_rom_banks * 16384
PrgRomSize(prg_rom_banks) == prg_rom_banks * PRG_BANK_SIZE

\* mutant: a header without CHR banks is read as a header with one
ChrRomSize_Min1(chr_rom_banks) ==
    IF chr_rom_banks = 0 THEN CHR_BANK_SIZE ELSE chr_rom_banks * CHR_BANK_SIZE

\* chr_rom_banks * 8192
ChrRomSize(chr_rom_banks) == chr_rom_banks * CHR_BANK_SIZE

\* mutant: any flag of flags6 announces a trainer
HasTrainer_AnyFlag(flags6) == flags6 # 0

\* bool(flags6 & 0x04)
HasTrainer(flags6) == BitAnd(flags6, TRAINER_FLAG) # 0

\* mutant: the trainer is never read
AfterHeader_NoTrainer(has_trainer) == "ReadPrg"

\* the statement after the header fields: `if self.has_trainer:` enters the
\* trainer read, otherwise the PRG read follows
AfterHeader(has_trainer) == IF has_trainer THEN "ReadTrainer" ELSE "ReadPrg"

\* the magic test and the header fields
check_magic(st) ==
    IF ~MagicOK(st.header) THEN Raise(st, BadMagic, 0, 0)
    ELSE LET prg_rom_banks == PyAt(st.header, 4)
             chr_rom_banks == PyAt(st.header, 5)
             flags6 == PyAt(st.header, 6)
         IN [st EXCEPT !.prg_rom_size = PrgRomSize(prg_rom_banks),
                       !.chr_rom_size = ChrRomSize(chr_rom_banks),
                       !.has_trainer = HasTrainer(flags6),
                       !.pc = AfterHeader(HasTrainer(flags6))]

\* trainer = f.read(512) and the length test
read_trainer(s, st) ==
    LET trainer == ReadBytes(s, st.pos, TRAINER_SIZE)
        r == [st EXCEPT !.pos = st.pos + Len(trainer)]
    IN IF Len(trainer) < TRAINER_SIZE THEN Raise(r, TruncatedTrainer, 0, 0)
       ELSE [r EXCEPT !.pc = "ReadPrg"]

\* prg_rom = f.read(self.prg_rom_size) and the length test
read_prg(s, st) ==
    LET prg_rom == ReadBytes(s, st.pos, st.prg_rom_size)
        r == [st EXCEPT !.pos = st.pos + Len(prg_rom)]
    IN IF Len(prg_rom) < st.prg_rom_size
       THEN Raise(r, TruncatedPrg, st.prg_rom_size, Len(prg_rom))
       ELSE [r EXCEPT !.pc = "ReadChr"]

\* mutant: a bank stops one byte early
BankData_Short(chr_rom, i) ==
    PySlice(chr_rom, i * CHR_BANK_SIZE, i * CHR_BANK_SIZE + CHR_BANK_SIZE - 1)

\* mutant: every bank is cut at the start of the CHR data
BankData_First(chr_rom, i) == PySlice(chr_rom, 0, CHR_BANK_SIZE)

\* chr_rom[bank_start:bank_end]
BankData(chr_rom, i) ==
    PySlice(chr_rom, i * CHR_BANK_SIZE, i * CHR_BANK_SIZE + CHR_BANK_SIZE)

\* for i in range(chr_rom_banks): self.chr_rom_banks.append(bank_data)
RECURSIVE AppendBanks(_, _, _, _)
AppendBanks(banks, chr_rom, chr_rom_banks, i) ==
    IF i >= chr_rom_banks THEN banks
    ELSE AppendBanks(Append(banks, BankData(chr_rom, i)), chr_rom,
                     chr_rom_banks, i + 1)

\* the CHR read, the length test and the split into banks; with
\* chr_rom_size = 0 nothing is read.  _parse returns, and so does __init__:
\* the caller holds the object.
read_chr(s, st) ==
    IF st.chr_rom_size > 0
    THEN LET chr_rom == ReadBytes(s, st.pos, st.chr_rom_size)
             r == [st EXCEPT !.pos = st.pos + Len(chr_rom)]
         IN IF Len(chr_rom) < st.chr_rom_size
            THEN Raise(r, TruncatedChr, st.chr_rom_size, Len(chr_rom))
            ELSE [r EXCEPT !.chr_rom_banks =
                               AppendBanks(st.chr_rom_banks, chr_rom,
                                           PyAt(st.header, 5), 0),
                           !.pc = "Done", !.returned = TRUE]
    ELSE [st EXCEPT !.pc = "Done", !.returned = TRUE]

\* one step of _parse
parse_step(s, st) ==
    CASE st.pc = "ReadHeader" -> read_header(s, st)
      [] st.pc = "CheckMagic" -> check_magic(st)
      [] st.pc = "ReadTrainer" -> read_trainer(s, st)
      [] st.pc = "ReadPrg" -> read_prg(s, st)
      [] st.pc = "ReadChr" -> read_chr(s, st)
      [] OTHER -> st

\* _parse run to its end
RECURSIVE parse(_, _)
parse(s, st) ==
    IF st.pc \in {"Done", "Failed"} THEN st ELSE parse(s, parse_step(s, st))

\* NESRom(filepath) on a file holding the bytes s
NESRom(s) == parse(s, NewRom)

\* NESRom.has_chr_rom
has_chr_rom(st) == Len(st.chr_rom_banks) > 0

\* NESRom.get_chr_bank_count
get_chr_bank_count(st) == Len(st.chr_rom_banks)

\* the exception get_chr_bank raises for bank_index
get_chr_bank_error(st, bank_index) ==
    IF bank_index < 0 \/ bank_index >= Len(st.chr_rom_banks)
    THEN "ValueError" ELSE "none"

\* mutant: the last bank, whatever the index
get_chr_bank_Last(st, bank_index) == st.chr_rom_banks[Len(st.chr_rom_banks)]

\* return self.chr_rom_banks[bank_index]
get_chr_bank(st, bank_index) == PyAt(st.chr_rom_banks, bank_index)

\* mutant: the banks joined last to first
RECURSIVE JoinBanks_Reversed(_)
JoinBanks_Reversed(banks) ==
    IF Len(banks) = 0 THEN <<>>
    ELSE JoinBanks_Reversed(Tail(banks)) \o Head(banks)

\* b''.join(banks)
RECURSIVE JoinBanks(_)
JoinBanks(banks) ==
    IF Len(banks) = 0 THEN <<>> ELSE Head(banks) \o JoinBanks(Tail(banks))

\* NESRom.get_all_chr_data
get_all_chr_data(st) == JoinBanks(st.chr_rom_banks)

\* mutant: the mapper without the bits of flags7
MapperOf_Low(flags6, flags7) == ShiftRight(flags6, 4)

\* (self.header[6] >> 4) | (self.header[7] & 0xF0)
MapperOf(flags6, flags7) == BitOr(ShiftRight(flags6, 4), BitAnd(flags7, 240))

\* 'Vertical' if (self.header[6] & 0x01) else 'Horizontal'
MirroringOf(flags6) == IF BitAnd(flags6, 1) # 0 THEN "Vertical" ELSE "Horizontal"

\* NESRom.get_rom_info
get_rom_info(st) ==
    [prg_rom_size |-> st.prg_rom_size,
     chr_rom_size |-> st.chr_rom_size,
     prg_banks |-> st.prg_rom_size \div PRG_BANK_SIZE,
     chr_banks |-> Len(st.chr_rom_banks),
     has_trainer |-> st.has_trainer,
     mapper |-> MapperOf(PyAt(st.header, 6), PyAt(st.header, 7)),
     mirroring |-> MirroringOf(PyAt(st.header, 6))]

\* mutant: a query drops the banks
self_after_query_Cleared(st) == [st EXCEPT !.chr_rom_banks = <<>>]

\* the object after has_chr_rom, get_chr_bank_count, get_chr_bank,
\* get_all_chr_data or get_rom_info: none of them assigns to a field or
\* changes a list
self_after_query(st) == st

\* no method has been called
NoCall == [op |-> "none", bank_index |-> 0, ret |-> <<>>, raised |-> "none"]

---------------------------------------------------------------------------
(* BuildSystem: build_project, _build_thread, _build_ca65, _build_asm6,    *)
(* _on_build_finished.  A thread's pc names the line of build_system.py   *)
(* it executes next.                                                       *)

\* BuildSystem.__init__: no build, no thread, nothing queued or emitted;
\* signals lists the names of the signals emitted so far, emitted is the
\* last emit with its arguments
NewBuildSystem ==
    [is_building |-> FALSE, threads |-> <<>>, idle |-> <<>>,
     signals |-> <<>>, emitted |-> <<>>, last |-> "none"]

\* mutant: the guard of build_project never holds
IsBusy_Never(b) == FALSE

\* if self.is_building: return
IsBusy(b) == b.is_building

\* no subprocess has returned yet
NoResult == [stdout |-> FALSE, stderr |-> FALSE, returncode |-> 0]

\* a thread created by build_project, about to run _build_thread; result
\* is the local of that name in _build_ca65 and _build_asm6: whether the
\* subprocess wrote to stdout and to stderr, and its return code
NewThread(assembler) ==
    [pc |-> "L173", assembler |-> assembler, success |-> FALSE,
     message |-> "", raised |-> FALSE, result |-> NoResult]

\* build_project(project, build_panel) on the main thread: it returns at
\* once while a build is going on or when project is no NESProject;
\* otherwise it sets is_building and emits build-started, and then either
\* starts a thread or, when get_active_build_config (a project file whose
\* build_configs is no dict) or the build panel raises, leaves with the
\* exception and without a thread.  `last` records which of these happened.
build_project(b, is_project, assembler, raises) ==
    IF IsBusy(b) THEN [b EXCEPT !.last = "busy"]
    ELSE IF ~is_project THEN [b EXCEPT !.last = "not_project"]
    ELSE LET started == [b EXCEPT !.is_building = TRUE,
                                  !.signals = Append(b.signals, [name |-> "build-started"]),
                                  !.emitted = <<"build-started">>]
         IN IF raises
            THEN [started EXCEPT !.last = "raised"]
            ELSE [started EXCEPT !.threads = Append(b.threads, NewThread(assembler)),
                                 !.last = "started"]

\* GLib.idle_add(callback, ...) by thread t at the statement it is at;
\* the thread goes on at pc
idle_add(b, t, callback, pc) ==
    [b EXCEPT !.idle = Append(b.idle, [callback |-> callback, at |-> b.threads[t].pc]),
              !.threads[t].pc = pc,
              !.last = "none"]

\* The statements of _build_thread, _build_ca65 and _build_asm6 by the
\* line they start at: what the statement is, the pc that follows it and
\* the pc of its other way out (the main source file is missing at 203
\* and 289, subprocess.run raises FileNotFoundError, the return code is
\* not 0).  "line" is an idle_add(output.append_line, ...) after which the
\* body goes on; "command" is such a line that joins the command list into
\* its text (217, 253, 302), which raises when an entry is no string;
\* "parse_errors" is the call of _parse_ca65_errors with the return False
\* after it (234-235): it queues nothing, and its int() raises ValueError
\* on a line number of too many digits; "return_false" and "return_true" are the last idle_add of
\* a body with its return; "prepare" computes paths and commands.
Statement ==
    [L173 |-> [kind |-> "dispatch", next |-> "", other |-> ""],
     L181 |-> [kind |-> "unsupported", next |-> "L185", other |-> ""],
     L185 |-> [kind |-> "post", next |-> "exit", other |-> ""],
     L189 |-> [kind |-> "line", next |-> "L190", other |-> ""],
     L190 |-> [kind |-> "post", next |-> "exit", other |-> ""],
     L194 |-> [kind |-> "line", next |-> "L197", other |-> ""],
     L197 |-> [kind |-> "prepare", next |-> "L208", other |-> "L204"],
     L204 |-> [kind |-> "return_false", next |-> "L185", other |-> ""],
     L208 |-> [kind |-> "prepare", next |-> "L217", other |-> ""],
     L217 |-> [kind |-> "command", next |-> "L220", other |-> ""],
     L220 |-> [kind |-> "run", next |-> "L227", other |-> "L238"],
     L227 |-> [kind |-> "stdout", next |-> "L229", other |-> ""],
     L229 |-> [kind |-> "stderr", next |-> "L232", other |-> ""],
     L232 |-> [kind |-> "returncode", next |-> "L243", other |-> "L233"],
     L233 |-> [kind |-> "line", next |-> "L234", other |-> ""],
     L234 |-> [kind |-> "parse_errors", next |-> "L185", other |-> ""],
     L238 |-> [kind |-> "line", next |-> "L239", other |-> ""],
     L239 |-> [kind |-> "return_false", next |-> "L185", other |-> ""],
     L243 |-> [kind |-> "prepare", next |-> "L253", other |-> ""],
     L253 |-> [kind |-> "command", next |-> "L256", other |-> ""],
     L256 |-> [kind |-> "run", next |-> "L263", other |-> "L273"],
     L263 |-> [kind |-> "stdout", next |-> "L265", other |-> ""],
     L265 |-> [kind |-> "stderr", next |-> "L268", other |-> ""],
     L268 |-> [kind |-> "returncode", next |-> "L276", other |-> "L269"],
     L269 |-> [kind |-> "return_false", next |-> "L185", other |-> ""],
     L273 |-> [kind |-> "return_false", next |-> "L185", other |-> ""],
     L276 |-> [kind |-> "return_true", next |-> "L185", other |-> ""],
     L281 |-> [kind |-> "line", next |-> "L284", other |-> ""],
     L284 |-> [kind |-> "prepare", next |-> "L294", other |-> "L290"],
     L290 |-> [kind |-> "return_false", next |-> "L185", other |-> ""],
     L294 |-> [kind |-> "prepare", next |-> "L302", other |-> ""],
     L302 |-> [kind |-> "command", next |-> "L305", other |-> ""],
     L305 |-> [kind |-> "run", next |-> "L312", other |-> "L325"],
     L312 |-> [kind |-> "stdout", next |-> "L314", other |-> ""],
     L314 |-> [kind |-> "stderr", next |-> "L317", other |-> ""],
     L317 |-> [kind |-> "returncode", next |-> "L321", other |-> "L318"],
     L318 |-> [kind |-> "return_false", next |-> "L185", other |-> ""],
     L321 |-> [kind |-> "return_true", next |-> "L185", other |-> ""],
     L325 |-> [kind |-> "return_false", next |-> "L185", other |-> ""],
     exit |-> [kind |-> "exit", next |-> "ended", other |-> ""],
     ended |-> [kind |-> "ended", next |-> "", other |-> ""]]

\* _build_thread, lines 173-182: the assembler of the configuration
\* decides which body runs
thread_dispatch(b, t) ==
    LET a == b.threads[t].assembler IN
    [b EXCEPT !.threads[t].pc = IF a = "ca65" THEN "L194"
                                ELSE IF a = "asm6" THEN "L281" ELSE "L181",
              !.last = "none"]

\* thread t queues an output line and goes on (194, 217, 238, 253, 281,
\* 302, and 189 in the except clause)
thread_queue_line(b, t) ==
    idle_add(b, t, "append_line", Statement[b.threads[t].pc].next)

\* the statements that compute paths and commands (197-203, 208-215,
\* 243-251, 284-289, 294-300) queue nothing; at 203 and 289 the body
\* goes on only if the main source file exists
thread_prepare(b, t, source_exists) ==
    LET s == Statement[b.threads[t].pc] IN
    [b EXCEPT !.threads[t].pc = IF s.other # "" /\ ~source_exists THEN s.other ELSE s.next,
              !.last = "none"]

\* subprocess.run returns with a result (220, 256, 305)
thread_run(b, t, result) ==
    [b EXCEPT !.threads[t].pc = Statement[b.threads[t].pc].next,
              !.threads[t].result = result,
              !.last = "none"]

\* subprocess.run raises FileNotFoundError, which the body catches (237,
\* 272, 324)
thread_tool_missing(b, t) ==
    [b EXCEPT !.threads[t].pc = Statement[b.threads[t].pc].other, !.last = "none"]

\* if result.stdout: idle_add(output.append_text, result.stdout), and the
\* same for stderr
thread_output_text(b, t) ==
    LET s == Statement[b.threads[t].pc]
        written == IF s.kind = "stdout" THEN b.threads[t].result.stdout
                   ELSE b.threads[t].result.stderr
    IN IF written THEN idle_add(b, t, "append_text", s.next)
       ELSE [b EXCEPT !.threads[t].pc = s.next, !.last = "none"]

\* if result.returncode != 0 (232, 268, 317)
thread_check_returncode(b, t) ==
    LET s == Statement[b.threads[t].pc] IN
    [b EXCEPT !.threads[t].pc = IF b.threads[t].result.returncode # 0 THEN s.other ELSE s.next,
              !.last = "none"]

\* the last idle_add(output.append_line, ...) of a body and its return, or
\* lines 181-182, or the return after _parse_ca65_errors, which queues
\* nothing; the thread is then at line 185 with success set and the
\* locals of the body gone
thread_result(b, t, success) ==
    LET s == Statement[b.threads[t].pc]
        queued == IF s.kind = "parse_errors"
                  THEN [b EXCEPT !.threads[t].pc = s.next, !.last = "none"]
                  ELSE idle_add(b, t, "append_line", s.next)
    IN [queued EXCEPT !.threads[t].success = success,
                      !.threads[t].result = NoResult]

\* a statement of the try block raises: the thread enters the except
\* clause with what it has queued so far
thread_raise(b, t) ==
    [b EXCEPT !.threads[t].pc = "L189",
              !.threads[t].raised = TRUE,
              !.threads[t].success = FALSE,
              !.threads[t].message = "exception",
              !.threads[t].result = NoResult,
              !.last = "none"]

\* GLib.idle_add(self._on_build_finished, success, result_msg) with
\* result_msg of line 185, the last statement of the try block, or
\* GLib.idle_add(self._on_build_finished, False, str(e)), the last of the
\* except clause; the thread reads none of its locals again
thread_post(b, t) ==
    LET th == b.threads[t]
        msg == IF th.raised THEN th.message
               ELSE IF th.success THEN "Build succeeded" ELSE "Build failed"
    IN [b EXCEPT !.idle = Append(b.idle, [callback |-> "_on_build_finished", at |-> th.pc,
                                           success |-> th.success, message |-> msg]),
                 !.threads[t] = [NewThread("") EXCEPT !.pc = Statement[th.pc].next],
                 !.last = "none"]

\* _build_thread returns and the thread ends
thread_exit(b, t) ==
    [b EXCEPT !.threads[t].pc = Statement[b.threads[t].pc].next, !.last = "none"]

\* the main loop runs the first idle callback: an output line or text
\* changes nothing of the BuildSystem; _on_build_finished resets
\* is_building and emits build-finished
idle_dispatch(b) ==
    LET cb == Head(b.idle) IN
    IF cb.callback = "_on_build_finished"
    THEN [b EXCEPT !.idle = Tail(b.idle),
                   !.is_building = FALSE,
                   !.signals = Append(b.signals, [name |-> "build-finished"]),
                   !.emitted = <<"build-finished", cb.success, cb.message>>,
                   !.last = "none"]
    ELSE [b EXCEPT !.idle = Tail(b.idle), !.last = "none"]

\* cancel_build: current_process is never assigned, so the condition of
\* line 351 is false and nothing changes
cancel_build(b) == [b EXCEPT !.last = "none"]

---------------------------------------------------------------------------
(* Inputs *)

\* a tile whose 64 pixels all have color c
SolidTile(c) == [y \in 1..8 |-> [x \in 1..8 |-> c]]

\* a well-formed tile with no symmetry in x, y or between the planes
GradientTile == [y \in 1..8 |-> [x \in 1..8 |-> ((x - 1) + 2 * (y - 1) + ((x - 1) * (y - 1)) \div 3) % 4]]

\* an 8x8 grid of integers outside 0..3 (negative and large)
WideTile == [y \in 1..8 |-> [x \in 1..8 |-> 5 * (x - 1) - 3 * (y - 1) - 4]]

\* 64 values in 0..3, 8 rows of 8
WellFormed(t) ==
    /\ DOMAIN t = 1..8
    /\ \A y \in 1..8 : DOMAIN t[y] = 1..8 /\ \A x \in 1..8 : t[y][x] \in 0..3

TileInputs == {SolidTile(c) : c \in 0..3} \cup {GradientTile, WideTile}

IndexInputs == (-1)..MaxIndex

\* the bytes of a file of length n: varied, non-zero content
FileBytes(n) == [k \in 1..n |-> (37 * k + 11) % 256]

\* lengths of whole tiles, and of whole tiles followed by a partial tile
InitLengths == {16 * n + r : n \in 0..MaxInitTiles, r \in {0, 7}}

InitBuffers == {FileBytes(n) : n \in InitLengths}

\* palettes of 4, 3 and 1 colors, and the empty palette
PaletteInputs ==
    {NES_PALETTE,
     << <<255, 0, 0>>, <<0, 255, 0>>, <<0, 0, 255>> >>,
     << <<12, 34, 56>> >>,
     <<>>}

ScaleInputs == 1..MaxScale

PerRowInputs == 0..MaxPerRow

EmptyPixbuf == [pixels |-> <<>>, width |-> 0, height |-> 0, rowstride |-> 0]

\* the 'assembler' entry of the build configuration
AssemblerInputs == {"ca65", "asm6", "nesasm"}

\* the calls of build_project: with something that is no NESProject, with
\* a project whose configuration makes the call raise, and with a project
\* for each assembler
BuildInputs ==
    {[is_project |-> FALSE, assembler |-> "ca65", raises |-> FALSE],
     [is_project |-> TRUE, assembler |-> "ca65", raises |-> TRUE]}
    \cup {[is_project |-> TRUE, assembler |-> a, raises |-> FALSE] : a \in AssemblerInputs}

\* what a subprocess can return: whether it wrote to stdout and to stderr,
\* and its return code
ResultInputs == [stdout : BOOLEAN, stderr : BOOLEAN, returncode : {0, 1}]

\* no pixel has been painted
NoPixel == [x |-> 0, y |-> 0, color |-> 0]

\* the colors the editor paints with
ColorInputs == 0..3

\* a 16-byte iNES header: magic, PRG banks, CHR banks, flags6, flags7 and
\* 8 bytes of padding
RomHeader(magic, prg, chr, flags6, flags7) ==
    magic \o <<prg, chr, flags6, flags7>> \o Zeros(8)

\* n bytes after the header; the byte at file offset p is p % 251, so that
\* no two banks and no two regions of the file hold the same bytes
RomBody(n) == [k \in 1..n |-> (HEADER_SIZE + k - 1) % 251]

\* the bytes a header asks for after itself
RomNeeded(prg, chr, flags6) ==
    (IF HasTrainer(flags6) THEN TRAINER_SIZE ELSE 0)
    + prg * PRG_BANK_SIZE + chr * CHR_BANK_SIZE

\* body lengths: nothing after the header, one byte short of the end of the
\* trainer, of the PRG data and of the CHR data, the CHR data missing, all
\* the bytes asked for, and one byte more
RomBodyLengths(prg, chr, flags6) ==
    LET t == IF HasTrainer(flags6) THEN TRAINER_SIZE ELSE 0
        n == RomNeeded(prg, chr, flags6)
    IN {l \in {0, t - 1, t + prg * PRG_BANK_SIZE - 1, t + prg * PRG_BANK_SIZE,
               n - 1, n, n + 1} : l >= 0}

\* the header create_sample_nes_rom writes: 1 PRG bank, 2 CHR banks, flags 0
SampleHeader == RomHeader(INES_MAGIC, 1, 2, 0, 0)

\* flags6: no flag, the trainer flag alone, every flag but the trainer
\* flag, every flag
Flags6Inputs == {0, 4, 251, 255}

\* the magic with one of its four bytes changed
BadMagics == {[INES_MAGIC EXCEPT ![k] = 0] : k \in 1..4}

\* files that start with the magic: complete, and cut short at every step
GoodMagicRoms ==
    UNION {{RomHeader(INES_MAGIC, prg, chr, f6, 0) \o RomBody(l) :
                l \in RomBodyLengths(prg, chr, f6)} :
           prg \in 0..MaxPrgBanks, chr \in 0..MaxChrBanks, f6 \in Flags6Inputs}

\* files of 16 bytes or more that do not start with the magic: the header
\* alone, and all the bytes it asks for
BadMagicRoms ==
    UNION {{RomHeader(m, 1, 1, f6, 0) \o RomBody(l) :
                l \in {0, RomNeeded(1, 1, f6)}} :
           m \in BadMagics, f6 \in {0, 4}}

\* files shorter than a header, starting with the magic or not
ShortRoms ==
    {SubSeq(RomHeader(m, 1, 1, 0, 0), 1, n) :
        m \in {INES_MAGIC, [INES_MAGIC EXCEPT ![1] = 0]}, n \in {0, 3, 4, 15}}

\* complete files with one CHR bank, followed by as many bytes again
TrailingRoms ==
    {RomHeader(INES_MAGIC, 0, 1, f6, 0) \o RomBody(RomNeeded(0, 1, f6) + CHR_BANK_SIZE) :
        f6 \in {0, 4}}

RomInputs == GoodMagicRoms \cup BadMagicRoms \cup ShortRoms \cup TrailingRoms

\* flags6 and flags7 with every nibble pattern: 0, F, mixed
FlagSweep == {0, 1, 15, 16, 90, 165, 240, 255}

\* ROMs without PRG and CHR data, for the header flags
FlagRoms ==
    {RomHeader(INES_MAGIC, 0, 0, f6, f7) \o RomBody(RomNeeded(0, 0, f6)) :
        f6 \in FlagSweep, f7 \in FlagSweep}

\* bank indices: below, inside and above every bank list
BankIndexInputs == (-1)..MaxChrBanks

---------------------------------------------------------------------------
(* The state machine *)

\* CHRFile(data) / CHRFile.from_bytes(data)
Init ==
    /\ data \in InitBuffers
    /\ tile_count = TileCountOf(data)
    /\ op = "init"
    /\ idx = 0
    /\ tin = ZeroTile
    /\ ret = ZeroTile
    /\ err = "none"
    /\ old_data = data
    /\ old_count = tile_count
    /\ writes = 0
    /\ scale = 1
    /\ palette = NES_PALETTE
    /\ pixbuf = EmptyPixbuf
    /\ per_row = 0
    /\ rom_file = <<>>
    /\ rom = NewRom
    /\ rom_call = NoCall
    /\ pixel = NoPixel
    /\ build = NewBuildSystem

\* chr_file.set_tile(i, t)
SetTile(i, t) ==
    /\ writes' = writes + 1
    /\ op' = "set_tile"
    /\ idx' = i
    /\ tin' = t
    /\ old_data' = data
    /\ old_count' = tile_count
    /\ data' = set_tile(data, tile_count, i, t)
    /\ tile_count' = set_tile_count(data, tile_count, i)
    /\ err' = IF set_tile_raises(data, tile_count, i) THEN "IndexError" ELSE "none"
    /\ ret' = ZeroTile
    /\ UNCHANGED <<scale, palette, pixbuf, per_row, rom_file, rom,
                   rom_call, pixel, build>>

\* chr_file.get_tile(i)
GetTile(i) ==
    /\ op' = "get_tile"
    /\ idx' = i
    /\ old_data' = data
    /\ old_count' = tile_count
    /\ err' = IF get_tile_raises(data, tile_count, i) THEN "IndexError" ELSE "none"
    /\ ret' = IF get_tile_raises(data, tile_count, i) THEN ZeroTile
              ELSE get_tile(data, tile_count, i)
    /\ tin' = ZeroTile
    /\ UNCHANGED <<data, tile_count, writes, scale, palette, pixbuf, per_row,
                   rom_file, rom, rom_call, pixel, build>>

\* chr_file.render_tile_to_pixbuf(i, s, pal)
RenderTile(i, s, pal) ==
    LET e == render_tile_raises(data, tile_count, i, pal) IN
    /\ op' = "render_tile"
    /\ idx' = i
    /\ scale' = s
    /\ palette' = pal
    /\ old_data' = data
    /\ old_count' = tile_count
    /\ err' = e
    /\ ret' = IF get_tile_raises(data, tile_count, i) THEN ZeroTile
              ELSE get_tile(data, tile_count, i)
    /\ pixbuf' = IF e = "none"
                 THEN render_tile_to_pixbuf(data, tile_count, i, s, pal)
                 ELSE EmptyPixbuf
    /\ tin' = ZeroTile
    /\ per_row' = 0
    /\ UNCHANGED <<data, tile_count, writes, rom_file, rom, rom_call, pixel,
                   build>>

\* chr_file.render_all_tiles_to_pixbuf(n, s, pal)
RenderSheet(n, s, pal) ==
    LET e == render_all_raises(tile_count, n, pal) IN
    /\ op' = "render_sheet"
    /\ per_row' = n
    /\ scale' = s
    /\ palette' = pal
    /\ old_data' = data
    /\ old_count' = tile_count
    /\ err' = e
    /\ pixbuf' = IF e = "none"
                 THEN render_all_tiles_to_pixbuf(data, tile_count, n, s, pal)
                 ELSE EmptyPixbuf
    /\ idx' = 0
    /\ ret' = ZeroTile
    /\ tin' = ZeroTile
    /\ UNCHANGED <<data, tile_count, writes, rom_file, rom, rom_call, pixel,
                   build>>

Next ==
    \/ \E i \in IndexInputs, t \in TileInputs :
          writes < MaxWrites /\ SetTile(i, t)
    \/ \E i \in IndexInputs : GetTile(i)

\* the tile sheet under set_tile and get_tile
Spec == Init /\ [][Next]_vars

\* sequences of set_tile and get_tile calls on one sheet; the lengths and
\* tile_count do not depend on the tile written, so one tile is written
NextSeq ==
    \/ \E i \in IndexInputs : writes < MaxSeqWrites /\ SetTile(i, GradientTile)
    \/ \E i \in IndexInputs : GetTile(i)

\* the tile sheet under sequences of calls
SpecSeq == Init /\ [][NextSeq]_vars

\* the paint step of the tile viewer on the selected tile i (on_click selects
\* a tile only when tile_idx < tile_count) at pixel (tile_x, tile_y); when
\* get_tile raises, the step ends there and set_tile is not called
PaintPixel(i, tile_x, tile_y, c) ==
    LET e == paint_raises(data, tile_count, i)
        g == get_tile_raises(data, tile_count, i)
    IN
    /\ i < tile_count
    /\ op' = "paint"
    /\ idx' = i
    /\ pixel' = [x |-> tile_x, y |-> tile_y, color |-> c]
    /\ old_data' = data
    /\ old_count' = tile_count
    /\ err' = IF e THEN "IndexError" ELSE "none"
    /\ ret' = IF g THEN ZeroTile ELSE get_tile(data, tile_count, i)
    /\ tin' = IF g THEN ZeroTile
              ELSE Painted(get_tile(data, tile_count, i), tile_x, tile_y, c)
    /\ data' = paint_pixel(data, tile_count, i, tile_x, tile_y, c)
    /\ tile_count' = IF e THEN tile_count ELSE set_tile_count(data, tile_count, i)
    /\ writes' = IF g THEN writes ELSE writes + 1
    /\ UNCHANGED <<scale, palette, pixbuf, per_row, rom_file, rom, rom_call,
                   build>>

\* A paint step is explored from every loaded sheet: what it changes is a
\* property of the one step.
NextPaint ==
    \E i \in IndexInputs, tile_x \in 0..7, tile_y \in 0..7, c \in ColorInputs :
        op = "init" /\ PaintPixel(i, tile_x, tile_y, c)

\* painting on a loaded tile sheet
SpecPaint == Init /\ [][NextPaint]_vars

\* A render call changes nothing it reads (data, tile_count), so every state
\* a sequence of render calls reaches is one call away from the loaded
\* sheet: the calls are explored from there.
NextRender ==
    \/ \E i \in IndexInputs, s \in ScaleInputs, pal \in PaletteInputs :
          op = "init" /\ RenderTile(i, s, pal)
    \/ \E n \in PerRowInputs, s \in ScaleInputs, pal \in PaletteInputs :
          op = "init" /\ RenderSheet(n, s, pal)

\* rendering of a loaded tile sheet
SpecRender == Init /\ [][NextRender]_vars

\* the variables of the tile sheet
chr_vars == <<data, tile_count, op, idx, tin, ret, err, old_data, old_count,
              writes, scale, palette, pixbuf, per_row, pixel>>

\* NESRom(filepath) is called on a file: __init__ has set the fields and
\* _parse is about to open the file.  No tile sheet is involved.
InitRom ==
    /\ rom_file \in RomInputs
    /\ rom = NewRom
    /\ rom_call = NoCall
    /\ pixel = NoPixel
    /\ build = NewBuildSystem
    /\ data = <<>>
    /\ tile_count = 0
    /\ op = "init"
    /\ idx = 0
    /\ tin = ZeroTile
    /\ ret = ZeroTile
    /\ err = "none"
    /\ old_data = <<>>
    /\ old_count = 0
    /\ writes = 0
    /\ scale = 1
    /\ palette = NES_PALETTE
    /\ pixbuf = EmptyPixbuf
    /\ per_row = 0

\* self.header = f.read(16); if len(self.header) < 16: raise
ReadHeader ==
    /\ rom.pc = "ReadHeader"
    /\ rom' = read_header(rom_file, rom)
    /\ UNCHANGED <<rom_file, rom_call, chr_vars, build>>

\* if self.header[0:4] != self.INES_MAGIC: raise; the header fields
CheckMagic ==
    /\ rom.pc = "CheckMagic"
    /\ rom' = check_magic(rom)
    /\ UNCHANGED <<rom_file, rom_call, chr_vars, build>>

\* trainer = f.read(512); if len(trainer) < 512: raise
ReadTrainer ==
    /\ rom.pc = "ReadTrainer"
    /\ rom' = read_trainer(rom_file, rom)
    /\ UNCHANGED <<rom_file, rom_call, chr_vars, build>>

\* prg_rom = f.read(self.prg_rom_size); if len(prg_rom) < ...: raise
ReadPrg ==
    /\ rom.pc = "ReadPrg"
    /\ rom' = read_prg(rom_file, rom)
    /\ UNCHANGED <<rom_file, rom_call, chr_vars, build>>

\* the CHR read and the banks; _parse and __init__ return
ReadChr ==
    /\ rom.pc = "ReadChr"
    /\ rom' = read_chr(rom_file, rom)
    /\ UNCHANGED <<rom_file, rom_call, chr_vars, build>>

NextRom ==
    \/ ReadHeader
    \/ CheckMagic
    \/ ReadTrainer
    \/ ReadPrg
    \/ ReadChr

\* the construction of a NESRom, statement group by statement group
SpecRom == InitRom /\ [][NextRom]_vars

\* rom = NESRom(filepath) has returned an object
InitQuery ==
    /\ rom_file \in RomInputs \cup FlagRoms
    /\ rom = NESRom(rom_file)
    /\ rom.returned
    /\ rom_call = NoCall
    /\ pixel = NoPixel
    /\ build = NewBuildSystem
    /\ data = <<>>
    /\ tile_count = 0
    /\ op = "init"
    /\ idx = 0
    /\ tin = ZeroTile
    /\ ret = ZeroTile
    /\ err = "none"
    /\ old_data = <<>>
    /\ old_count = 0
    /\ writes = 0
    /\ scale = 1
    /\ palette = NES_PALETTE
    /\ pixbuf = EmptyPixbuf
    /\ per_row = 0

\* rom.has_chr_rom()
HasChrRom ==
    /\ rom_call' = [op |-> "has_chr_rom", bank_index |-> 0,
                    ret |-> has_chr_rom(rom), raised |-> "none"]
    /\ rom' = self_after_query(rom)
    /\ UNCHANGED <<rom_file, chr_vars, build>>

\* rom.get_chr_bank_count()
GetChrBankCount ==
    /\ rom_call' = [op |-> "get_chr_bank_count", bank_index |-> 0,
                    ret |-> get_chr_bank_count(rom), raised |-> "none"]
    /\ rom' = self_after_query(rom)
    /\ UNCHANGED <<rom_file, chr_vars, build>>

\* rom.get_chr_bank(i)
GetChrBank(i) ==
    LET e == get_chr_bank_error(rom, i) IN
    /\ rom_call' = [op |-> "get_chr_bank", bank_index |-> i,
                    ret |-> IF e = "none" THEN get_chr_bank(rom, i) ELSE <<>>,
                    raised |-> e]
    /\ rom' = self_after_query(rom)
    /\ UNCHANGED <<rom_file, chr_vars, build>>

\* rom.get_all_chr_data()
GetAllChrData ==
    /\ rom_call' = [op |-> "get_all_chr_data", bank_index |-> 0,
                    ret |-> get_all_chr_data(rom), raised |-> "none"]
    /\ rom' = self_after_query(rom)
    /\ UNCHANGED <<rom_file, chr_vars, build>>

\* rom.get_rom_info()
GetRomInfo ==
    /\ rom_call' = [op |-> "get_rom_info", bank_index |-> 0,
                    ret |-> get_rom_info(rom), raised |-> "none"]
    /\ rom' = self_after_query(rom)
    /\ UNCHANGED <<rom_file, chr_vars, build>>

NextQuery ==
    \/ HasChrRom
    \/ GetChrBankCount
    \/ \E i \in BankIndexInputs : GetChrBank(i)
    \/ GetAllChrData
    \/ GetRomInfo

\* the methods of a parsed NESRom, called in any order
SpecQuery == InitQuery /\ [][NextQuery]_vars

\* the variables of the NESRom
rom_vars == <<rom_file, rom, rom_call>>

\* a BuildSystem after __init__; no tile sheet and no ROM are involved
InitBuild ==
    /\ build = NewBuildSystem
    /\ rom_file = <<>>
    /\ rom = NewRom
    /\ rom_call = NoCall
    /\ pixel = NoPixel
    /\ data = <<>>
    /\ tile_count = 0
    /\ op = "init"
    /\ idx = 0
    /\ tin = ZeroTile
    /\ ret = ZeroTile
    /\ err = "none"
    /\ old_data = <<>>
    /\ old_count = 0
    /\ writes = 0
    /\ scale = 1
    /\ palette = NES_PALETTE
    /\ pixbuf = EmptyPixbuf
    /\ per_row = 0

\* the user asks for a build (IDEWindow._on_build_clicked); the call may
\* raise after it has emitted build-started
BuildProject(is_project, assembler, raises) ==
    /\ (~IsBusy(build) /\ is_project) => Len(build.threads) < MaxBuilds
    /\ build' = build_project(build, is_project, assembler, raises)
    /\ UNCHANGED <<chr_vars, rom_vars>>

\* cancel_build is called
CancelBuild ==
    /\ build' = cancel_build(build)
    /\ UNCHANGED <<chr_vars, rom_vars>>

\* thread t is at a statement of one of the kinds
ThreadAt(t, kinds) ==
    t \in DOMAIN build.threads /\ Statement[build.threads[t].pc].kind \in kinds

\* thread t reads the assembler of the configuration
ThreadDispatch(t) ==
    /\ ThreadAt(t, {"dispatch"})
    /\ build' = thread_dispatch(build, t)
    /\ UNCHANGED <<chr_vars, rom_vars>>

\* thread t queues an output line and goes on
ThreadQueueLine(t) ==
    /\ ThreadAt(t, {"line", "command"})
    /\ build' = thread_queue_line(build, t)
    /\ UNCHANGED <<chr_vars, rom_vars>>

\* thread t computes paths or a command
ThreadPrepare(t, source_exists) ==
    /\ ThreadAt(t, {"prepare"})
    /\ build' = thread_prepare(build, t, source_exists)
    /\ UNCHANGED <<chr_vars, rom_vars>>

\* the assembler or the linker thread t waits for returns
ThreadRun(t, result) ==
    /\ ThreadAt(t, {"run"})
    /\ build' = thread_run(build, t, result)
    /\ UNCHANGED <<chr_vars, rom_vars>>

\* the assembler or the linker of thread t is not installed
ThreadToolMissing(t) ==
    /\ ThreadAt(t, {"run"})
    /\ build' = thread_tool_missing(build, t)
    /\ UNCHANGED <<chr_vars, rom_vars>>

\* thread t queues what the subprocess wrote, if anything
ThreadOutputText(t) ==
    /\ ThreadAt(t, {"stdout", "stderr"})
    /\ build' = thread_output_text(build, t)
    /\ UNCHANGED <<chr_vars, rom_vars>>

\* thread t tests the return code
ThreadCheckReturncode(t) ==
    /\ ThreadAt(t, {"returncode"})
    /\ build' = thread_check_returncode(build, t)
    /\ UNCHANGED <<chr_vars, rom_vars>>

\* thread t: the build succeeds (_build_ca65 or _build_asm6 returns True)
ThreadSucceeds(t) ==
    /\ ThreadAt(t, {"return_true"})
    /\ build' = thread_result(build, t, TRUE)
    /\ UNCHANGED <<chr_vars, rom_vars>>

\* thread t: the build fails (_build_ca65 or _build_asm6 returns False)
ThreadFails(t) ==
    /\ ThreadAt(t, {"return_false", "parse_errors"})
    /\ build' = thread_result(build, t, FALSE)
    /\ UNCHANGED <<chr_vars, rom_vars>>

\* thread t: the assembler is neither ca65 nor asm6
ThreadUnsupported(t) ==
    /\ ThreadAt(t, {"unsupported"})
    /\ build' = thread_result(build, t, FALSE)
    /\ UNCHANGED <<chr_vars, rom_vars>>

\* thread t: config.get (173), the paths and mkdir, a command list, the
\* join of a command (217, 253, 302), subprocess.run or _parse_ca65_errors
\* (234) raises
ThreadRaises(t) ==
    /\ ThreadAt(t, {"dispatch", "prepare", "command", "run", "parse_errors"})
    /\ build' = thread_raise(build, t)
    /\ UNCHANGED <<chr_vars, rom_vars>>

\* thread t queues _on_build_finished, at the end of the try block or of
\* the except clause
ThreadPost(t) ==
    /\ ThreadAt(t, {"post"})
    /\ build' = thread_post(build, t)
    /\ UNCHANGED <<chr_vars, rom_vars>>

\* thread t ends
ThreadExit(t) ==
    /\ ThreadAt(t, {"exit"})
    /\ build' = thread_exit(build, t)
    /\ UNCHANGED <<chr_vars, rom_vars>>

\* a step of thread t
ThreadStep(t) ==
    \/ ThreadDispatch(t)
    \/ ThreadQueueLine(t)
    \/ \E e \in BOOLEAN : ThreadPrepare(t, e)
    \/ \E r \in ResultInputs : ThreadRun(t, r)
    \/ ThreadToolMissing(t)
    \/ ThreadOutputText(t)
    \/ ThreadCheckReturncode(t)
    \/ ThreadSucceeds(t)
    \/ ThreadFails(t)
    \/ ThreadUnsupported(t)
    \/ ThreadRaises(t)
    \/ ThreadPost(t)
    \/ ThreadExit(t)

\* the GLib main loop runs the next idle callback
IdleDispatch ==
    /\ Len(build.idle) > 0
    /\ build' = idle_dispatch(build)
    /\ UNCHANGED <<chr_vars, rom_vars>>

NextBuild ==
    \/ \E c \in BuildInputs : BuildProject(c.is_project, c.assembler, c.raises)
    \/ CancelBuild
    \/ \E t \in 1..MaxBuilds : ThreadDispatch(t)
    \/ \E t \in 1..MaxBuilds : ThreadQueueLine(t)
    \/ \E t \in 1..MaxBuilds, e \in BOOLEAN : ThreadPrepare(t, e)
    \/ \E t \in 1..MaxBuilds, r \in ResultInputs : ThreadRun(t, r)
    \/ \E t \in 1..MaxBuilds : ThreadToolMissing(t)
    \/ \E t \in 1..MaxBuilds : ThreadOutputText(t)
    \/ \E t \in 1..MaxBuilds : ThreadCheckReturncode(t)
    \/ \E t \in 1..MaxBuilds : ThreadSucceeds(t)
    \/ \E t \in 1..MaxBuilds : ThreadFails(t)
    \/ \E t \in 1..MaxBuilds : ThreadUnsupported(t)
    \/ \E t \in 1..MaxBuilds : ThreadRaises(t)
    \/ \E t \in 1..MaxBuilds : ThreadPost(t)
    \/ \E t \in 1..MaxBuilds : ThreadExit(t)
    \/ IdleDispatch

\* The build system with its threads and the main loop.  A started thread
\* is scheduled until it ends, the assembler and the linker it waits for
\* terminate, and the main loop runs the idle callbacks queued in it; the
\* user is free never to ask for a build.
SpecBuild ==
    /\ InitBuild
    /\ [][NextBuild]_vars
    /\ \A t \in 1..MaxBuilds : WF_vars(ThreadStep(t))
    /\ WF_vars(IdleDispatch)


---------------------------------------------------------------------------
(* Properties of the tile codec *)

\* t with every value taken mod 4
Mod4(t) == [y \in 1..8 |-> [x \in 1..8 |-> t[y][x] % 4]]

\* the 0-based byte offset k lies in the 16 bytes of tile i
InTile(k, i) == 16 * i <= k /\ k < 16 * i + 16

\* bit b of byte v
BitOf(v, b) == (v \div (2 ^ b)) % 2

\* C1: round trip. After set_tile(i, T) with i >= 0 and T an 8x8 tile of
\* values in 0..3, get_tile(i) returns exactly T.
C1_RoundTrip ==
    (op = "set_tile" /\ idx >= 0 /\ WellFormed(tin)) =>
        /\ err = "none"
        /\ ~get_tile_raises(data, tile_count, idx)
        /\ get_tile(data, tile_count, idx) = tin

C1_Witness ==
    /\ op = "set_tile" /\ idx = 1 /\ tin = GradientTile
    /\ old_count = 2 /\ get_tile(data, tile_count, 1) = GradientTile

\* C2: decode bit layout. For an in-range index i, get_tile(i)[y][x] is
\* (bit 7-x of data[16i+y+8]) * 2 + (bit 7-x of data[16i+y]).
C2_DecodeLayout ==
    (op = "get_tile" /\ 0 <= idx /\ idx < tile_count) =>
        /\ err = "none"
        /\ \A y \in 0..7 : \A x \in 0..7 :
              ret[y + 1][x + 1] =
                  2 * BitOf(data[16 * idx + y + 8 + 1], 7 - x)
                  + BitOf(data[16 * idx + y + 1], 7 - x)

C2_Witness ==
    /\ op = "get_tile" /\ idx = 1 /\ tile_count = 2
    /\ \E y \in 1..8 : ret[y][1] # ret[y][8]

\* C3: packing bit order. Encoding a tile whose 64 pixels all have color c
\* writes 0xFF to the 8 low-plane bytes iff c & 1 (else 0x00) and 0xFF to the
\* 8 high-plane bytes iff c & 2 (else 0x00).
C3_SolidPlanes ==
    \A c \in 0..3 :
        (op = "set_tile" /\ idx >= 0 /\ tin = SolidTile(c)) =>
            \A y \in 0..7 :
                /\ data[16 * idx + y + 1] = (IF c \in {1, 3} THEN 255 ELSE 0)
                /\ data[16 * idx + y + 8 + 1] = (IF c \in {2, 3} THEN 255 ELSE 0)

C3_Witness ==
    /\ op = "set_tile" /\ idx = 0 /\ tin = SolidTile(1)
    /\ Len(old_data) >= 16 /\ old_data[9] # 0
    /\ data[1] = 255 /\ data[9] = 0

\* C4: tile_count of a freshly loaded buffer is floor(len/16), and get_tile
\* returns the all-zero tile for every index >= tile_count, a partial
\* trailing tile being treated as absent.
C4_OutOfRangeZero ==
    /\ (op = "init") => (tile_count * 16 <= Len(data) /\ Len(data) < tile_count * 16 + 16)
    /\ (op = "get_tile" /\ idx >= tile_count) => (err = "none" /\ ret = ZeroTile)

C4_Witness ==
    /\ op = "get_tile" /\ idx = tile_count /\ writes = 0
    /\ Len(data) = 16 * tile_count + 7
    /\ data[16 * idx + 1] # 0
    /\ ret = ZeroTile

\* C5: growth on write. set_tile(N, T) on a buffer of M < N+1 tiles leaves
\* exactly 16*(N+1) bytes, tiles [M, N) decode to all zeros and tile N
\* decodes to T.
C5_GrowthOnWrite ==
    (op = "set_tile" /\ old_count < idx + 1 /\ WellFormed(tin)) =>
        /\ Len(data) = 16 * (idx + 1)
        /\ \A j \in old_count..(idx - 1) : get_tile(data, tile_count, j) = ZeroTile
        /\ get_tile(data, tile_count, idx) = tin

\* C6: growth never loses data. When set_tile(N, T) grows the buffer, every
\* byte that existed keeps its offset and value except inside [16N, 16N+16),
\* tiles [0, M) decode as before, and only zero bytes are appended.
C6_GrowthKeepsData ==
    (op = "set_tile" /\ idx >= old_count) =>
        /\ err = "none"
        /\ Len(data) >= Len(old_data)
        /\ \A k \in 1..Len(old_data) :
              ~InTile(k - 1, idx) => data[k] = old_data[k]
        /\ \A k \in (Len(old_data) + 1)..Len(data) :
              ~InTile(k - 1, idx) => data[k] = 0
        /\ \A j \in 0..(old_count - 1) :
              get_tile(data, tile_count, j) = get_tile(old_data, old_count, j)

C6_Witness ==
    /\ op = "set_tile" /\ idx = old_count + 1 /\ old_count = 1
    /\ Len(old_data) = 23 /\ Len(data) = 48
    /\ old_data[20] # 0 /\ data[20] = old_data[20]

\* C7: in-place write frame. set_tile(i, T) with 0 <= i < tile_count
\* rewrites only bytes [16i, 16i+16); length, tile_count and every other
\* byte are unchanged.
C7_InPlaceFrame ==
    (op = "set_tile" /\ 0 <= idx /\ idx < old_count) =>
        /\ err = "none"
        /\ Len(data) = Len(old_data)
        /\ tile_count = old_count
        /\ \A k \in 1..Len(old_data) :
              ~InTile(k - 1, idx) => data[k] = old_data[k]

C7_Witness ==
    /\ op = "set_tile" /\ idx = 0 /\ old_count = 2 /\ tin = GradientTile
    /\ data # old_data /\ Len(data) = 39

\* C8: set_tile never fails on a well-formed tile, for any tile index and
\* any buffer, and leaves a valid buffer.
C8_SetTileNeverFails ==
    (op = "set_tile" /\ WellFormed(tin)) =>
        /\ err = "none"
        /\ tile_count = Len(data) \div 16
        /\ \A k \in 1..Len(data) : data[k] \in 0..255

\* C9: color values are taken mod 4. set_tile(i, V) writes the same bytes as
\* set_tile(i, V mod 4), every byte stays in 0..255, and get_tile(i) then
\* returns V mod 4.
C9_ColorsMod4 ==
    (op = "set_tile" /\ err = "none") =>
        /\ data = set_tile(old_data, old_count, idx, Mod4(tin))
        /\ \A k \in 1..Len(data) : data[k] \in 0..255
        /\ idx >= 0 => get_tile(data, tile_count, idx) = Mod4(tin)

C9_Witness ==
    /\ op = "set_tile" /\ err = "none" /\ idx = 1 /\ tin = WideTile
    /\ get_tile(data, tile_count, 1) = Mod4(WideTile)
    /\ Mod4(WideTile) # WideTile

\* C10: render_tile output. For scale s >= 1 the pixel buffer has exactly
\* (8s)*(8s)*3 bytes in row-major order and the pixel at (py, px) is
\* palette[get_tile(i)[py div s][px div s] mod len(palette)].
C10_RenderTile ==
    (op = "render_tile" /\ err = "none") =>
        LET s == scale
            t == get_tile(data, tile_count, idx) IN
        /\ Len(pixbuf.pixels) = (8 * s) * (8 * s) * 3
        /\ pixbuf.width = 8 * s /\ pixbuf.height = 8 * s
        /\ pixbuf.rowstride = 3 * pixbuf.width
        /\ \A py \in 0..(8 * s - 1) : \A px \in 0..(8 * s - 1) :
              LET o == (py * (8 * s) + px) * 3
                  c == palette[(t[(py \div s) + 1][(px \div s) + 1] % Len(palette)) + 1] IN
              /\ pixbuf.pixels[o + 1] = c[1]
              /\ pixbuf.pixels[o + 2] = c[2]
              /\ pixbuf.pixels[o + 3] = c[3]

C10_Witness ==
    /\ op = "render_tile" /\ err = "none" /\ scale = 2 /\ idx = 0
    /\ tile_count >= 1 /\ Len(palette) = 3
    /\ Len(pixbuf.pixels) = 768
    /\ \E k \in 1..765 : pixbuf.pixels[k] # pixbuf.pixels[k + 3]


---------------------------------------------------------------------------
(* Properties of the sheet renderer *)

\* the RGB triple at pixel (py, px) of a pixel buffer `width` pixels wide
PixelAt(pixels, width, py, px) ==
    LET o == (py * width + px) * 3 IN <<pixels[o + 1], pixels[o + 2], pixels[o + 3]>>

\* C11: palette wraparound. Rendering any tile (any index, any buffer) with
\* a palette of length 1 never fails and every pixel is that single color; a
\* palette shorter than 4 entries is indexed modulo its length instead of
\* failing.
C11_PaletteWrap ==
    /\ (op = "render_tile" /\ Len(palette) < 4) => err = "none"
    /\ (op = "render_sheet" /\ per_row >= 1 /\ Len(palette) < 4) => err = "none"
    /\ (op = "render_tile" /\ Len(palette) = 1 /\ err = "none") =>
           \A py \in 0..(pixbuf.height - 1) : \A px \in 0..(pixbuf.width - 1) :
               PixelAt(pixbuf.pixels, pixbuf.width, py, px) = palette[1]
    /\ (op = "render_sheet" /\ Len(palette) = 1 /\ err = "none" /\ tile_count > 0) =>
           \A py \in 0..(pixbuf.height - 1) : \A px \in 0..(pixbuf.width - 1) :
               ((py \div (8 * scale)) * per_row + (px \div (8 * scale)) < tile_count) =>
                   PixelAt(pixbuf.pixels, pixbuf.width, py, px) = palette[1]

\* C12: sheet layout. For tile_count > 0 the output is tiles_per_row*8*scale
\* pixels wide and ceil(tile_count/tiles_per_row)*8*scale pixels high, tile k
\* is drawn in cell (k div tiles_per_row, k mod tiles_per_row), and every
\* pixel of a cell with no tile is (0,0,0).
C12_SheetLayout ==
    (op = "render_sheet" /\ err = "none" /\ tile_count > 0) =>
        LET s == scale
            w == pixbuf.width
            h == pixbuf.height
            rows == h \div (8 * s)
            tiles == [k \in 0..(tile_count - 1) |-> get_tile(data, tile_count, k)]
        IN
        /\ w = per_row * 8 * s
        /\ h = rows * 8 * s
        /\ rows * per_row >= tile_count
        /\ (rows - 1) * per_row < tile_count
        /\ pixbuf.rowstride = 3 * w
        /\ Len(pixbuf.pixels) = w * h * 3
        /\ \A py \in 0..(h - 1) : \A px \in 0..(w - 1) :
              LET k == (py \div (8 * s)) * per_row + (px \div (8 * s))
                  c == tiles[k][((py % (8 * s)) \div s) + 1][((px % (8 * s)) \div s) + 1]
              IN PixelAt(pixbuf.pixels, w, py, px) =
                     (IF k < tile_count THEN palette[(c % Len(palette)) + 1]
                      ELSE <<0, 0, 0>>)

C12_Witness ==
    /\ op = "render_sheet" /\ err = "none"
    /\ tile_count = 1 /\ per_row = 2 /\ scale = 2 /\ palette = NES_PALETTE
    /\ pixbuf.width = 32 /\ pixbuf.height = 16
    /\ PixelAt(pixbuf.pixels, 32, 0, 0) # <<0, 0, 0>>
    /\ PixelAt(pixbuf.pixels, 32, 15, 16) = <<0, 0, 0>>

\* C13: rendering a sheet with tile_count = 0 returns a 64x64 placeholder,
\* whatever tiles_per_row, scale and palette are passed, and never an error
\* or a zero-area buffer.
C13_EmptySheetPlaceholder ==
    (op = "render_sheet" /\ old_count = 0) =>
        /\ err = "none"
        /\ pixbuf.width = 64
        /\ pixbuf.height = 64

C13_Witness ==
    /\ op = "render_sheet" /\ old_count = 0 /\ Len(data) = 7
    /\ per_row = 0 /\ palette = <<>>
    /\ pixbuf.width * pixbuf.height = 4096

---------------------------------------------------------------------------
(* Properties of the iNES parser.  The properties read the file and the   *)
(* position _parse has reached; they name the header bytes by their file  *)
(* offsets (byte k of the file is rom_file[k + 1]).                       *)

\* bit 2 of header byte 6
TrainerBit == BitOf(rom_file[7], 2) = 1

\* the file offset of the PRG data
PrgStart == IF TrainerBit THEN 528 ELSE 16

\* the PRG size header byte 4 declares
PrgWant == rom_file[5] * 16384

\* the file offset of the CHR data
ChrStart == PrgStart + PrgWant

\* the CHR size header byte 5 declares
ChrWant == rom_file[6] * 8192

\* the file starts with a whole header that carries the magic
HeaderValid ==
    /\ Len(rom_file) >= 16
    /\ SubSeq(rom_file, 1, 4) = <<78, 69, 83, 26>>

\* the parse is past the header: it is at a later step, or it ended there
PastHeader ==
    \/ rom.pc \in {"ReadTrainer", "ReadPrg", "ReadChr", "Done"}
    \/ rom.pc = "Failed" /\ rom.error \in {TruncatedTrainer, TruncatedPrg, TruncatedChr}

\* the parse is past the trainer
PastTrainer ==
    \/ rom.pc \in {"ReadPrg", "ReadChr", "Done"}
    \/ rom.pc = "Failed" /\ rom.error \in {TruncatedPrg, TruncatedChr}

\* the PRG step has run
PrgStepRan ==
    \/ rom.pc \in {"ReadChr", "Done"}
    \/ rom.pc = "Failed" /\ rom.error \in {TruncatedPrg, TruncatedChr}

\* the CHR step has run
ChrStepRan ==
    \/ rom.pc = "Done"
    \/ rom.pc = "Failed" /\ rom.error = TruncatedChr

\* C14: a file shorter than 16 bytes fails at the header read with the
\* "file too small" error (TruncatedHeader), whatever its bytes are, and no
\* object is returned.
C14_TruncatedHeader ==
    (Len(rom_file) < 16 /\ rom.pc # "ReadHeader") =>
        /\ rom.pc = "Failed"
        /\ rom.error = TruncatedHeader
        /\ ~rom.returned

\* a 15-byte file that does not start with the magic was rejected as too small
C14_Witness ==
    /\ rom.pc = "Failed"
    /\ rom.error = TruncatedHeader
    /\ Len(rom_file) = 15
    /\ rom_file[1] # 78

\* C15: a file of 16 bytes or more whose bytes 0-3 are not 'N','E','S',0x1A
\* fails with the "not a valid iNES" error (BadMagic), whatever the other
\* header bytes and the length of the rest are.
C15_BadMagic ==
    (/\ Len(rom_file) >= 16
     /\ SubSeq(rom_file, 1, 4) # <<78, 69, 83, 26>>
     /\ rom.pc \notin {"ReadHeader", "CheckMagic"}) =>
        /\ rom.pc = "Failed"
        /\ rom.error = BadMagic
        /\ ~rom.returned

\* a file wrong in byte 3 only, with a trainer flag and every byte its header
\* asks for, was rejected for its magic
C15_Witness ==
    /\ rom.pc = "Failed"
    /\ rom.error = BadMagic
    /\ Len(rom_file) = 16 + 512 + 16384 + 8192
    /\ SubSeq(rom_file, 1, 3) = <<78, 69, 83>>
    /\ rom_file[4] # 26
    /\ TrainerBit

\* C16: has_trainer is true iff bit 2 of header byte 6 is set; the PRG read
\* starts at offset 528 when it is set and at 16 otherwise; the parse fails
\* with the "incomplete trainer" error (TruncatedTrainer) exactly when the
\* bit is set and fewer than 512 bytes follow the header.
C16_Trainer ==
    /\ PastHeader => (rom.has_trainer <=> TrainerBit)
    /\ rom.pc = "ReadTrainer" => (TrainerBit /\ rom.pos = 16)
    /\ rom.pc = "ReadPrg" => rom.pos = (IF TrainerBit THEN 528 ELSE 16)
    /\ (HeaderValid /\ rom.pc \notin {"ReadHeader", "CheckMagic", "ReadTrainer"}) =>
          ((rom.pc = "Failed" /\ rom.error = TruncatedTrainer)
             <=> (TrainerBit /\ Len(rom_file) - 16 < 512))
    /\ rom.error = TruncatedTrainer => ~rom.returned

\* with every flag of byte 6 set, the trainer was read and the PRG read is
\* about to start at offset 528
C16_Witness ==
    /\ rom.pc = "ReadPrg"
    /\ rom_file[7] = 255
    /\ rom.has_trainer
    /\ rom.pos = 528

\* C17: the PRG step reads header[4] * 16384 bytes after the header and the
\* trainer; when fewer are left the parse fails with the "incomplete PRG"
\* error (TruncatedPrg), which carries that size as the expected count and
\* the number of bytes that were left as the actual count.
C17_PrgStep ==
    PrgStepRan =>
        /\ rom.prg_rom_size = PrgWant
        /\ (rom.error = TruncatedPrg) <=> (Len(rom_file) - PrgStart < PrgWant)
        /\ rom.error = TruncatedPrg =>
              /\ rom.pc = "Failed"
              /\ ~rom.returned
              /\ rom.expected = PrgWant
              /\ rom.got = Len(rom_file) - PrgStart
        /\ rom.pc = "ReadChr" => rom.pos = PrgStart + PrgWant

\* after a trainer, one PRG bank was declared and 16383 bytes were left
C17_Witness ==
    /\ rom.pc = "Failed"
    /\ rom.error = TruncatedPrg
    /\ rom.has_trainer
    /\ rom.expected = 16384
    /\ rom.got = 16383
    /\ Len(rom_file) = 528 + 16383

\* C18: with chr_size > 0 the CHR step reads chr_size bytes after the PRG
\* data and fails with the "incomplete CHR" error (TruncatedChr, with the
\* expected and the actual count) when fewer are left; on success bank k is
\* the 8192 bytes at file offsets [C + 8192k, C + 8192k + 8192), where
\* C = 16 + (512 if trainer) + prg_size.
C18_ChrStep ==
    /\ rom.pc = "ReadChr" => rom.pos = ChrStart
    /\ (ChrStepRan /\ ChrWant > 0) =>
          /\ (rom.error = TruncatedChr) <=> (Len(rom_file) - ChrStart < ChrWant)
          /\ rom.pc = "Failed" =>
                /\ ~rom.returned
                /\ rom.expected = ChrWant
                /\ rom.got = Len(rom_file) - ChrStart
          /\ rom.pc = "Done" =>
                /\ rom.pos = ChrStart + ChrWant
                /\ Len(rom.chr_rom_banks) = ChrWant \div 8192
                /\ \A k \in 0..(ChrWant \div 8192 - 1) :
                      /\ Len(rom.chr_rom_banks[k + 1]) = 8192
                      /\ rom.chr_rom_banks[k + 1] =
                            [j \in 1..8192 |-> rom_file[ChrStart + 8192 * k + j]]

\* a ROM with a trainer, one PRG bank and two CHR banks that differ was parsed
C18_Witness ==
    /\ rom.pc = "Done"
    /\ rom.has_trainer
    /\ rom.prg_rom_size = 16384
    /\ Len(rom.chr_rom_banks) = 2
    /\ rom.chr_rom_banks[1] # rom.chr_rom_banks[2]
    /\ rom.chr_rom_banks[2][1] = rom_file[528 + 16384 + 8192 + 1]

\* C19: a file with a valid header whose byte 5 is 0 and whose trainer and
\* PRG data are complete parses without error: the object is returned, its
\* chr_rom_banks is empty, get_chr_bank_count() is 0 and has_chr_rom() is
\* false.
C19_ChrRam ==
    (/\ HeaderValid
     /\ rom_file[6] = 0
     /\ Len(rom_file) >= ChrStart
     /\ rom.pc \in {"Done", "Failed"}) =>
        /\ rom.pc = "Done"
        /\ rom.error = "none"
        /\ rom.returned
        /\ rom.chr_rom_banks = <<>>
        /\ get_chr_bank_count(rom) = 0
        /\ ~has_chr_rom(rom)

\* a ROM with a trainer, one PRG bank and no CHR bank was parsed
C19_Witness ==
    /\ rom.pc = "Done"
    /\ rom_file[6] = 0
    /\ rom_file[5] = 1
    /\ rom.has_trainer
    /\ Len(rom_file) = 528 + 16384
    /\ get_chr_bank_count(rom) = 0

\* the error of the first step, in the order header, magic, trainer, PRG,
\* CHR, that finds the file f too short or wrong
FirstFailure(f) ==
    IF Len(f) < 16 THEN TruncatedHeader
    ELSE IF SubSeq(f, 1, 4) # <<78, 69, 83, 26>> THEN BadMagic
    ELSE LET t == IF BitOf(f[7], 2) = 1 THEN 512 ELSE 0
             prg == f[5] * 16384
             chr == f[6] * 8192
         IN IF Len(f) < 16 + t THEN TruncatedTrainer
            ELSE IF Len(f) < 16 + t + prg THEN TruncatedPrg
            ELSE IF Len(f) < 16 + t + prg + chr THEN TruncatedChr
            ELSE "none"

\* one step of the parse in the order of the steps: each step leads to the
\* next one or to the failure with its own error, the trainer step is
\* entered iff the header flags it, and an object is returned only by the
\* step that reaches Done
StepInOrder ==
    /\ \/ /\ rom.pc = "ReadHeader"
          /\ \/ rom'.pc = "CheckMagic"
             \/ rom'.pc = "Failed" /\ rom'.error = TruncatedHeader
       \/ /\ rom.pc = "CheckMagic"
          /\ \/ rom'.pc = "ReadTrainer" /\ TrainerBit
             \/ rom'.pc = "ReadPrg" /\ ~TrainerBit
             \/ rom'.pc = "Failed" /\ rom'.error = BadMagic
       \/ /\ rom.pc = "ReadTrainer"
          /\ \/ rom'.pc = "ReadPrg"
             \/ rom'.pc = "Failed" /\ rom'.error = TruncatedTrainer
       \/ /\ rom.pc = "ReadPrg"
          /\ \/ rom'.pc = "ReadChr"
             \/ rom'.pc = "Failed" /\ rom'.error = TruncatedPrg
       \/ /\ rom.pc = "ReadChr"
          /\ \/ rom'.pc = "Done"
             \/ rom'.pc = "Failed" /\ rom'.error = TruncatedChr
    /\ rom'.returned <=> rom'.pc = "Done"
    /\ rom'.pc # "Failed" => rom'.error = "none"

\* the outcome of the parse is that of the first failing step, and a failed
\* parse returns no object
FirstErrorReported ==
    /\ rom.pc = "Failed" => (rom.error = FirstFailure(rom_file) /\ ~rom.returned)
    /\ rom.pc = "Done" => (FirstFailure(rom_file) = "none" /\ rom.returned)
    /\ rom.returned => rom.pc = "Done"

\* C20: the steps run in the order ReadHeader, magic check, ReadTrainer (iff
\* flagged), ReadPrg, ReadChr, Done, none skipped or reordered; the error
\* raised is that of the first step that fails in this order; a failed parse
\* returns no object to the caller.
C20_StepOrder == [][StepInOrder]_vars /\ []FirstErrorReported

\* a flagged file with nothing after its header, which declares PRG and CHR
\* banks too, failed at the trainer step
C20_Witness ==
    /\ rom.pc = "Failed"
    /\ rom.error = TruncatedTrainer
    /\ Len(rom_file) = 16
    /\ rom_file[5] = 1
    /\ rom_file[6] = 2
    /\ ~rom.returned

\* C21: after every successful parse prg_rom_size = header[4] * 16384,
\* chr_rom_size = header[5] * 8192, get_chr_bank_count() = header[5] and
\* every bank holds exactly 8192 bytes; the sample header (1 PRG bank, 2 CHR
\* banks, no trainer) followed by exactly 16384 + 16384 bytes parses with
\* get_chr_bank_count() = 2.
C21_SizesAndBanks ==
    /\ rom.pc = "Done" =>
          /\ rom.prg_rom_size = rom_file[5] * 16384
          /\ rom.chr_rom_size = rom_file[6] * 8192
          /\ get_chr_bank_count(rom) = rom_file[6]
          /\ \A k \in 1..Len(rom.chr_rom_banks) : Len(rom.chr_rom_banks[k]) = 8192
    /\ (/\ rom.pc \in {"Done", "Failed"}
        /\ Len(rom_file) = 16 + 16384 + 16384
        /\ SubSeq(rom_file, 1, 16) = <<78, 69, 83, 26, 1, 2, 0, 0, 0, 0, 0, 0, 0, 0, 0, 0>>) =>
          /\ rom.pc = "Done"
          /\ rom.returned
          /\ get_chr_bank_count(rom) = 2

\* the sample ROM was parsed: two banks of 8192 bytes
C21_Witness ==
    /\ rom.pc = "Done"
    /\ SubSeq(rom_file, 1, 16) = SampleHeader
    /\ Len(rom_file) = 16 + 16384 + 16384
    /\ get_chr_bank_count(rom) = 2
    /\ Len(rom.chr_rom_banks[1]) = 8192
    /\ Len(rom.chr_rom_banks[2]) = 8192

---------------------------------------------------------------------------
(* Properties of the methods of a parsed NESRom *)

\* C22: get_rom_info reports mapper = (header[6] >> 4) | (header[7] & 0xF0),
\* a value in 0..255 whose low nibble is the high nibble of byte 6 and whose
\* high nibble is the high nibble of byte 7, and mirroring 'Vertical' iff
\* bit 0 of byte 6 is 1, 'Horizontal' otherwise.
C22_MapperMirroring ==
    rom_call.op = "get_rom_info" =>
        /\ rom_call.ret.mapper = (rom_file[7] \div 16) + 16 * (rom_file[8] \div 16)
        /\ rom_call.ret.mapper \in 0..255
        /\ rom_call.ret.mapper % 16 = rom_file[7] \div 16
        /\ rom_call.ret.mapper \div 16 = rom_file[8] \div 16
        /\ rom_call.ret.mirroring = "Vertical" <=> rom_file[7] % 2 = 1
        /\ rom_call.ret.mirroring = "Horizontal" <=> rom_file[7] % 2 = 0

\* flags6 = 0xA5 and flags7 = 0x5A: mapper 0x5A, vertical mirroring
C22_Witness ==
    /\ rom_call.op = "get_rom_info"
    /\ rom_file[7] = 165
    /\ rom_file[8] = 90
    /\ rom_call.ret.mapper = 90
    /\ rom_call.ret.mirroring = "Vertical"

\* C23: get_chr_bank(i) raises for every i < 0 and every
\* i >= get_chr_bank_count() and returns nothing then; for
\* 0 <= i < get_chr_bank_count() it returns bank i, the 8192 file bytes of
\* that bank.
C23_GetBankStrict ==
    rom_call.op = "get_chr_bank" =>
        LET i == rom_call.bank_index
            n == get_chr_bank_count(rom)
        IN /\ (i < 0 \/ i >= n) =>
                 (rom_call.raised = "ValueError" /\ rom_call.ret = <<>>)
           /\ (0 <= i /\ i < n) =>
                 /\ rom_call.raised = "none"
                 /\ rom_call.ret = rom.chr_rom_banks[i + 1]
                 /\ rom_call.ret =
                       [j \in 1..8192 |-> rom_file[ChrStart + 8192 * i + j]]

\* get_chr_bank(1) on a ROM with two banks returned the second one
C23_Witness ==
    /\ rom_call.op = "get_chr_bank"
    /\ rom_call.bank_index = 1
    /\ get_chr_bank_count(rom) = 2
    /\ rom_call.raised = "none"
    /\ rom_call.ret = rom.chr_rom_banks[2]
    /\ rom_call.ret # rom.chr_rom_banks[1]

\* get_chr_bank(0) on a ROM without CHR banks, get_chr_bank(-1) and
\* get_chr_bank(get_chr_bank_count()) raised
C23_WitnessRaise ==
    /\ rom_call.op = "get_chr_bank"
    /\ rom_call.raised = "ValueError"
    /\ \/ rom_call.bank_index = 0 /\ get_chr_bank_count(rom) = 0
       \/ rom_call.bank_index = -1 /\ get_chr_bank_count(rom) = 2
       \/ rom_call.bank_index = 2 /\ get_chr_bank_count(rom) = 2

\* C24: get_all_chr_data returns bank 0, bank 1, ... joined in index order;
\* its length is chr_rom_size, it is the CHR region of the file byte for
\* byte, and it is empty for a ROM without CHR banks.
C24_AllChrBytes ==
    rom_call.op = "get_all_chr_data" =>
        /\ Len(rom_call.ret) = rom.chr_rom_size
        /\ rom_call.ret = [j \in 1..ChrWant |-> rom_file[ChrStart + j]]
        /\ \A k \in 1..Len(rom.chr_rom_banks) :
              SubSeq(rom_call.ret, 8192 * (k - 1) + 1, 8192 * k) = rom.chr_rom_banks[k]
        /\ rom_file[6] = 0 => rom_call.ret = <<>>

\* the 16384 CHR bytes of a ROM with a trainer, a PRG bank and two CHR banks
C24_Witness ==
    /\ rom_call.op = "get_all_chr_data"
    /\ rom.has_trainer
    /\ rom.prg_rom_size = 16384
    /\ Len(rom.chr_rom_banks) = 2
    /\ Len(rom_call.ret) = 16384
    /\ rom_call.ret[8193] = rom_file[528 + 16384 + 8192 + 1]

\* what the last call returned is what the same call returns now
ResultRepeats ==
    /\ rom_call.op = "has_chr_rom" => rom_call.ret = has_chr_rom(rom)
    /\ rom_call.op = "get_chr_bank_count" => rom_call.ret = get_chr_bank_count(rom)
    /\ rom_call.op = "get_chr_bank" =>
          /\ rom_call.raised = get_chr_bank_error(rom, rom_call.bank_index)
          /\ rom_call.raised = "none" =>
                rom_call.ret = rom.chr_rom_banks[rom_call.bank_index + 1]
    /\ rom_call.op = "get_all_chr_data" => rom_call.ret = get_all_chr_data(rom)
    /\ rom_call.op = "get_rom_info" => rom_call.ret = get_rom_info(rom)

\* C25: every call of has_chr_rom, get_chr_bank_count, get_chr_bank (raising
\* or not), get_all_chr_data and get_rom_info leaves the object as the parse
\* built it: header, prg_rom_size, chr_rom_size, has_trainer and the banks
\* are unchanged, so a repeated call returns an equal result.
C25_Immutable ==
    /\ [][rom' = rom /\ rom_file' = rom_file]_vars
    /\ [](rom = NESRom(rom_file))
    /\ []ResultRepeats

\* after a get_chr_bank call that raised, a ROM with two banks is as parsed
C25_Witness ==
    /\ rom_call.op = "get_chr_bank"
    /\ rom_call.raised = "ValueError"
    /\ Len(rom.chr_rom_banks) = 2
    /\ rom = NESRom(rom_file)

---------------------------------------------------------------------------
(* Further properties of the tile codec *)

\* C26: decoding never raises. For every tile index and every buffer
\* (empty, whole tiles, or with a partial trailing tile) get_tile raises
\* nothing, returns 8 rows of 8 values in 0..3, and leaves data and
\* tile_count unchanged.
C26_DecodeNeverRaises ==
    op = "get_tile" =>
        /\ err = "none"
        /\ WellFormed(ret)
        /\ data = old_data
        /\ tile_count = old_count

\* C27: over every sequence of set_tile and get_tile calls on a loaded
\* buffer, tile_count = floor(len(data) / 16) in every state, len(data)
\* never decreases, and a length that is a multiple of 16 at the start
\* stays a multiple of 16.
C27_SheetInvariant ==
    /\ [](tile_count = Len(data) \div 16)
    /\ [][Len(data') >= Len(data)]_vars
    /\ (Len(data) % 16 = 0) => [](Len(data) % 16 = 0)

\* the second set_tile of a sequence grew a 16-byte buffer to three tiles
C27_Witness ==
    /\ writes = 2
    /\ op = "set_tile"
    /\ Len(old_data) = 16
    /\ Len(data) = 48
    /\ tile_count = 3

\* C28: re-encoding is the identity on bytes. For 0 <= i < tile_count,
\* set_tile(i, get_tile(i)) leaves the whole buffer unchanged; the paint
\* step (get_tile, change of pixel (y, x), set_tile) changes at most bit
\* 7 - x of the bytes 16i + y and 16i + y + 8, and no other bit.
C28_PaintOneBitPair ==
    (op = "paint" /\ idx >= 0) =>
        /\ err = "none"
        /\ set_tile(old_data, old_count, idx, get_tile(old_data, old_count, idx)) = old_data
        /\ Len(data) = Len(old_data)
        /\ tile_count = old_count
        /\ \A k \in 1..Len(data) : \A b \in 0..7 :
              BitOf(data[k], b) # BitOf(old_data[k], b) =>
                  /\ b = 7 - pixel.x
                  /\ k - 1 \in {16 * idx + pixel.y, 16 * idx + pixel.y + 8}
        /\ ret[pixel.y + 1][pixel.x + 1] = pixel.color => data = old_data

\* pixel (5, 2) of tile 1 was painted with a color that differs in both
\* planes: one bit of byte 16 + 5 and one bit of byte 16 + 13 changed
C28_Witness ==
    /\ op = "paint"
    /\ idx = 1
    /\ pixel.x = 2
    /\ pixel.y = 5
    /\ err = "none"
    /\ data[16 + 5 + 1] # old_data[16 + 5 + 1]
    /\ data[16 + 13 + 1] # old_data[16 + 13 + 1]
    /\ BitOf(data[16 + 5 + 1], 5) # BitOf(old_data[16 + 5 + 1], 5)

---------------------------------------------------------------------------
(* Further properties of the iNES parser *)

\* the length the header of the file asks for: header, trainer, PRG, CHR
TotalWant == ChrStart + ChrWant

\* C29: the parse succeeds iff the file has at least 16 bytes, starts with
\* the magic and is at least 16 + (512 if bit 2 of byte 6) +
\* header[4] * 16384 + header[5] * 8192 bytes long; the bytes after that
\* length are not read, and the object is the one the file cut at that
\* length gives, field by field and bank by bank.
C29_SuccessByLengthAndMagic ==
    rom.pc \in {"Done", "Failed"} =>
        /\ rom.pc = "Done" <=> (HeaderValid /\ Len(rom_file) >= TotalWant)
        /\ rom.pc = "Done" =>
              LET cut == NESRom(SubSeq(rom_file, 1, TotalWant))
              IN /\ rom.pos = TotalWant
                 /\ cut.pc = "Done"
                 /\ rom.header = cut.header
                 /\ rom.prg_rom_size = cut.prg_rom_size
                 /\ rom.chr_rom_size = cut.chr_rom_size
                 /\ rom.has_trainer = cut.has_trainer
                 /\ rom.chr_rom_banks = cut.chr_rom_banks
                 /\ rom = cut

\* a file with a trainer and one CHR bank, followed by 8192 more bytes, was
\* parsed: one bank, and the position stopped before the trailing bytes
C29_Witness ==
    /\ rom.pc = "Done"
    /\ rom.has_trainer
    /\ Len(rom.chr_rom_banks) = 1
    /\ rom.pos = 528 + 8192
    /\ Len(rom_file) = 528 + 8192 + 8192

---------------------------------------------------------------------------
(* Properties of the build system *)

\* the threads that are building: started and not yet past the statement
\* that hands _on_build_finished to the main loop
BuildingThreads ==
    {t \in DOMAIN build.threads : build.threads[t].pc \notin {"exit", "ended"}}

\* the signals emitted so far are build-started, build-finished,
\* build-started, ... in turn
SignalsAlternate ==
    \A k \in DOMAIN build.signals :
        build.signals[k].name = (IF k % 2 = 1 THEN "build-started" ELSE "build-finished")

\* a build_project call that found is_building set changed nothing
BusyCallIsIdle ==
    (build'.last = "busy" /\ build.last # "busy") =>
        /\ build.is_building
        /\ build'.is_building = build.is_building
        /\ build'.threads = build.threads
        /\ build'.signals = build.signals
        /\ build'.emitted = build.emitted
        /\ build'.idle = build.idle

\* Exclusion: a build_project call while is_building is true starts no
\* thread and emits no signal, at most one thread is building at a time,
\* build-started and build-finished alternate and is_building is true
\* exactly between a build-started and the build-finished that follows.
BuildExclusion ==
    /\ [][BusyCallIsIdle]_vars
    /\ [](Cardinality(BuildingThreads) <= 1)
    /\ []SignalsAlternate
    /\ [](build.is_building <=> Len(build.signals) % 2 = 1)

\* the n-th build-started, emitted by the call that started the n-th
\* thread, is followed by the n-th build-finished
FinishedFollows(n) ==
    (Len(build.signals) = 2 * n - 1 /\ Len(build.threads) >= n) ~>
        (Len(build.signals) >= 2 * n /\ build.signals[2 * n].name = "build-finished")

\* C30: a build_project call while is_building is true starts no thread and
\* emits no signal, so at most one thread is building at a time; and the
\* build-started of every build thread is eventually followed by exactly
\* one build-finished, which resets is_building, before the next
\* build-started: on the success, failure, unsupported-assembler and
\* exception paths of the thread.
C30_BuildExclusion ==
    /\ BuildExclusion
    /\ \A n \in 1..MaxBuilds : FinishedFollows(n)

\* two builds have finished, the second one in the except clause of its
\* thread
C30_Witness ==
    /\ Len(build.signals) = 4
    /\ Len(build.threads) = 2
    /\ ~build.is_building
    /\ build.emitted = <<"build-finished", FALSE, "exception">>

\* a build succeeded
C30_WitnessSuccess ==
    /\ Len(build.signals) = 2
    /\ build.emitted = <<"build-finished", TRUE, "Build succeeded">>

\* a build_project call was turned away while a thread was waiting for the
\* assembler
C30_WitnessBusy ==
    /\ build.last = "busy"
    /\ build.is_building
    /\ \E t \in BuildingThreads : Statement[build.threads[t].pc].kind = "run"

=============================================================================
